---- MODULE Spec2Model ----
(***************************************************************************)
(* Heatmap engine of the esports tracker dashboard: the two colour         *)
(* mappers (getColor, getHeatColor), the text-contrast helper, the         *)
(* synthetic grid generator of DeviceHeatmap, the fetch/fallback           *)
(* life cycle of the two heatmap views and the refresh timers of the       *)
(* views.                                                                  *)
(***************************************************************************)
EXTENDS Integers, Sequences, FiniteSets, Bags, TLC

(***************************************************************************)
(* Bounds of the model.                                                    *)
(***************************************************************************)
\* intensities range over [0, MaxValue], in steps of 1/ValueDen
MaxValue == 100
ValueDen == 2
\* samples drawn by each pass of generateDummyHeatmap (the code draws
\* 5000, 1000 and 1000)
Pass1Samples == 1
Pass2Samples == 1
Pass3Samples == 1
\* a weight draw of Math.random() is k / WeightDen; grid cells hold
\* weights in units of 1 / WeightDen
WeightDen == 2
\* fetches one view starts and timers the page creates in one run
MaxFetches == 3
MaxTimers == 3
\* the same for IoTDevices, whose renders start up to two timers and two
\* calls each
MaxIoFetches == 5
MaxIoTimers == 5
MaxApiCalls == 2
MaxRequests == 3
MaxSlRequests == 2
MaxDmCalls == 3

(***************************************************************************)
(* Rationals: <<numerator, denominator>>, denominator > 0, not reduced.    *)
(* A JavaScript number that a colour formula produces is kept exactly.     *)
(***************************************************************************)
Rat(n, d) == <<n, d>>
RatEq(p, q) == p[1] * q[2] = q[1] * p[2]
RatLeq(p, q) == p[1] * q[2] <= q[1] * p[2]
RatLt(p, q) == p[1] * q[2] < q[1] * p[2]

RGBA(r, g, b, a) == [r |-> r, g |-> g, b |-> b, a |-> a]

\* the values the mappers are applied to: n stands for n / ValueDen
Values == 0 .. (MaxValue * ValueDen)

(***************************************************************************)
(* Colour mappers.  The argument n is the value in units of 1/ValueDen,    *)
(* so `value < 10' reads n < 10 * ValueDen and `value / 20' is the         *)
(* rational n / (20 * ValueDen).                                           *)
(***************************************************************************)
\* getColor with the zero test dropped and a floor on the first band's alpha
getColor_noZero(n) ==
  IF n < 10 * ValueDen
    THEN RGBA(Rat(0, 1), Rat(0, 1), Rat(255, 1), Rat(n + ValueDen, 20 * ValueDen))
  ELSE IF n < 30 * ValueDen
    THEN RGBA(Rat(0, 1), Rat(255 * ValueDen - (n - 10 * ValueDen) * 8, ValueDen),
              Rat(255, 1), Rat(5, 10))
  ELSE IF n < 60 * ValueDen
    THEN RGBA(Rat((n - 30 * ValueDen) * 8, ValueDen), Rat(255, 1),
              Rat(255 * ValueDen - (n - 30 * ValueDen) * 8, ValueDen), Rat(6, 10))
  ELSE IF n < 80 * ValueDen
    THEN RGBA(Rat(255, 1), Rat(255 * ValueDen - (n - 60 * ValueDen) * 12, ValueDen),
              Rat(0, 1), Rat(7, 10))
  ELSE RGBA(Rat(255, 1), Rat(0, 1), Rat(0, 1), Rat(8, 10))

\* getColor with the first band's alpha falling instead of rising
getColor_fallingAlpha(n) ==
  IF n = 0 THEN RGBA(Rat(0, 1), Rat(0, 1), Rat(0, 1), Rat(0, 1))
  ELSE IF n < 10 * ValueDen
    THEN RGBA(Rat(0, 1), Rat(0, 1), Rat(255, 1),
              Rat(10 * ValueDen - n, 20 * ValueDen))
  ELSE IF n < 30 * ValueDen
    THEN RGBA(Rat(0, 1), Rat(255 * ValueDen - (n - 10 * ValueDen) * 8, ValueDen),
              Rat(255, 1), Rat(5, 10))
  ELSE IF n < 60 * ValueDen
    THEN RGBA(Rat((n - 30 * ValueDen) * 8, ValueDen), Rat(255, 1),
              Rat(255 * ValueDen - (n - 30 * ValueDen) * 8, ValueDen), Rat(6, 10))
  ELSE IF n < 80 * ValueDen
    THEN RGBA(Rat(255, 1), Rat(255 * ValueDen - (n - 60 * ValueDen) * 12, ValueDen),
              Rat(0, 1), Rat(7, 10))
  ELSE RGBA(Rat(255, 1), Rat(0, 1), Rat(0, 1), Rat(8, 10))

\* getColor whose last band keeps the previous band's green ramp
getColor_noRedBand(n) ==
  IF n = 0 THEN RGBA(Rat(0, 1), Rat(0, 1), Rat(0, 1), Rat(0, 1))
  ELSE IF n < 10 * ValueDen
    THEN RGBA(Rat(0, 1), Rat(0, 1), Rat(255, 1), Rat(n, 20 * ValueDen))
  ELSE IF n < 30 * ValueDen
    THEN RGBA(Rat(0, 1), Rat(255 * ValueDen - (n - 10 * ValueDen) * 8, ValueDen),
              Rat(255, 1), Rat(5, 10))
  ELSE IF n < 60 * ValueDen
    THEN RGBA(Rat((n - 30 * ValueDen) * 8, ValueDen), Rat(255, 1),
              Rat(255 * ValueDen - (n - 30 * ValueDen) * 8, ValueDen), Rat(6, 10))
  ELSE RGBA(Rat(255, 1), Rat(255 * ValueDen - (n - 60 * ValueDen) * 12, ValueDen),
            Rat(0, 1), Rat(7, 10))

\* DeviceHeatmap.getColor: the spatial mapper
getColor(n) ==
  IF n = 0 THEN RGBA(Rat(0, 1), Rat(0, 1), Rat(0, 1), Rat(0, 1))
  ELSE IF n < 10 * ValueDen
    THEN RGBA(Rat(0, 1), Rat(0, 1), Rat(255, 1), Rat(n, 20 * ValueDen))
  ELSE IF n < 30 * ValueDen
    THEN RGBA(Rat(0, 1), Rat(255 * ValueDen - (n - 10 * ValueDen) * 8, ValueDen),
              Rat(255, 1), Rat(5, 10))
  ELSE IF n < 60 * ValueDen
    THEN RGBA(Rat((n - 30 * ValueDen) * 8, ValueDen), Rat(255, 1),
              Rat(255 * ValueDen - (n - 30 * ValueDen) * 8, ValueDen), Rat(6, 10))
  ELSE IF n < 80 * ValueDen
    THEN RGBA(Rat(255, 1), Rat(255 * ValueDen - (n - 60 * ValueDen) * 12, ValueDen),
              Rat(0, 1), Rat(7, 10))
  ELSE RGBA(Rat(255, 1), Rat(0, 1), Rat(0, 1), Rat(8, 10))

\* the band of getColor a value falls in (the branch that returns)
getColorBand(n) ==
  IF n = 0 THEN 0
  ELSE IF n < 10 * ValueDen THEN 1
  ELSE IF n < 30 * ValueDen THEN 2
  ELSE IF n < 60 * ValueDen THEN 3
  ELSE IF n < 80 * ValueDen THEN 4
  ELSE 5

\* MouseButtonHeatmap.getHeatColor: the contact-zone mapper
getHeatColor(n) ==
  IF n < 20 * ValueDen
    THEN RGBA(Rat(0, 1), Rat(0, 1), Rat(255, 1), Rat(n, 100 * ValueDen))
  ELSE IF n < 50 * ValueDen
    THEN RGBA(Rat(0, 1),
              Rat(255 * 30 * ValueDen - (n - 20 * ValueDen) * 255, 30 * ValueDen),
              Rat(255, 1), Rat(n, 100 * ValueDen))
  ELSE IF n < 80 * ValueDen
    THEN RGBA(Rat((n - 50 * ValueDen) * 255, 30 * ValueDen), Rat(0, 1),
              Rat(255 * 30 * ValueDen - (n - 50 * ValueDen) * 255, 30 * ValueDen),
              Rat(n, 100 * ValueDen))
  ELSE RGBA(Rat(255, 1), Rat(0, 1), Rat(0, 1), Rat(n, 100 * ValueDen))

\* the band of getHeatColor a value falls in
getHeatColorBand(n) ==
  IF n < 20 * ValueDen THEN 1
  ELSE IF n < 50 * ValueDen THEN 2
  ELSE IF n < 80 * ValueDen THEN 3
  ELSE 4

\* getTextColor with the comparison made inclusive
getTextColor_inclusive(n) == IF n >= 50 * ValueDen THEN "white" ELSE "black"

\* MouseButtonHeatmap.getTextColor
getTextColor(n) == IF n > 50 * ValueDen THEN "white" ELSE "black"

(***************************************************************************)
(* IEEE-754 binary64 arithmetic, as far as the index computations of       *)
(* generateDummyHeatmap use it: non-negative numbers in the normal range,  *)
(* round to nearest, ties to even.  A natural number is a little-endian    *)
(* sequence of limbs in base 2^LimbBits without leading zero limbs; a      *)
(* double is [m, e] and stands for m * 2^e with m < 2^MantissaBits.        *)
(***************************************************************************)
LimbBits == 13
Base == 2 ^ LimbBits
MantissaBits == 53
\* fraction bits kept while a decimal literal is converted to a double
LitGuard == 64

Limb(a, i) == IF i \in 1..Len(a) THEN a[i] ELSE 0

BigNorm(a) ==
  LET nz == {i \in 1..Len(a) : a[i] # 0}
  IN IF nz = {} THEN <<>> ELSE SubSeq(a, 1, CHOOSE i \in nz : \A j \in nz : j <= i)

BigFromInt(n) == BigNorm([i \in 1..3 |-> (n \div (Base ^ (i - 1))) % Base])

\* the value of a number below Base^2
BigToInt(a) == Limb(a, 1) + Base * Limb(a, 2)

RECURSIVE BigCarryRec(_, _)
BigCarryRec(cols, c) ==
  IF cols = <<>>
    THEN (IF c = 0 THEN <<>> ELSE <<c % Base>> \o BigCarryRec(<<>>, c \div Base))
    ELSE LET s == Head(cols) + c
         IN <<s % Base>> \o BigCarryRec(Tail(cols), s \div Base)

BigCarry(cols) == BigNorm(BigCarryRec(cols, 0))

BigAdd(a, b) ==
  BigCarry([i \in 1..(IF Len(a) > Len(b) THEN Len(a) ELSE Len(b)) |->
              Limb(a, i) + Limb(b, i)])

RECURSIVE BigColSum(_, _, _, _)
BigColSum(a, b, j, i) ==
  IF i = 0 THEN 0 ELSE a[i] * Limb(b, j - i + 1) + BigColSum(a, b, j, i - 1)

BigMul(a, b) ==
  IF a = <<>> \/ b = <<>> THEN <<>>
  ELSE BigCarry([j \in 1..(Len(a) + Len(b) - 1) |-> BigColSum(a, b, j, Len(a))])

\* a * 2^s
BigShl(a, s) ==
  IF a = <<>> THEN <<>>
  ELSE [i \in 1..(s \div LimbBits) |-> 0]
         \o BigCarry([i \in 1..Len(a) |-> a[i] * (2 ^ (s % LimbBits))])

\* floor(a / 2^s)
BigShr(a, s) ==
  LET q == s \div LimbBits
      t == s % LimbBits
      hi == IF q >= Len(a) THEN <<>> ELSE SubSeq(a, q + 1, Len(a))
  IN BigNorm([i \in 1..Len(hi) |->
        (hi[i] \div (2 ^ t)) + (Limb(hi, i + 1) % (2 ^ t)) * (2 ^ (LimbBits - t))])

\* bit s of a (bit 0 is the lowest)
BigBit(a, s) == (Limb(a, (s \div LimbBits) + 1) \div (2 ^ (s % LimbBits))) % 2

\* a mod 2^s # 0
BigLowNonZero(a, s) ==
  \/ \E i \in 1..(s \div LimbBits) : Limb(a, i) # 0
  \/ Limb(a, (s \div LimbBits) + 1) % (2 ^ (s % LimbBits)) # 0

BigBitLen(a) ==
  IF a = <<>> THEN 0
  ELSE LimbBits * (Len(a) - 1)
       + (CHOOSE k \in 1..LimbBits : 2 ^ (k - 1) <= a[Len(a)] /\ a[Len(a)] < 2 ^ k)

\* quotient and remainder of a by a small divisor
RECURSIVE BigDivSmall(_, _)
BigDivSmall(a, d) ==
  IF a = <<>> THEN [q |-> <<>>, r |-> 0]
  ELSE LET hi == BigDivSmall(Tail(a), d)
           cur == hi.r * Base + Head(a)
       IN [q |-> <<cur \div d>> \o hi.q, r |-> cur % d]

\* a rounded to MantissaBits significant bits: [m, s] with a ~ m * 2^s;
\* sticky says that the exact value lies strictly above a
RoundNearestEven(a, sticky) ==
  LET n == BigBitLen(a) IN
  IF n <= MantissaBits THEN [m |-> a, s |-> 0]
  ELSE LET d == n - MantissaBits
           q == BigShr(a, d)
           half == BigBit(a, d - 1) = 1
           low == sticky \/ BigLowNonZero(a, d - 1)
           up == half /\ (low \/ BigBit(q, 0) = 1)
           q2 == IF up THEN BigAdd(q, <<1>>) ELSE q
       IN IF BigBitLen(q2) > MantissaBits
            THEN [m |-> BigShr(q2, 1), s |-> d + 1]
            ELSE [m |-> q2, s |-> d]

Fl(m, e) == [m |-> m, e |-> e]

\* the double of an integer below 2^31
FlInt(n) == Fl(BigFromInt(n), 0)

\* the double a decimal literal n/d denotes (0.6 is FlLit(6, 10))
FlLit(n, d) ==
  LET dv == BigDivSmall(BigShl(BigFromInt(n), LitGuard), d)
      r == RoundNearestEven(BigNorm(dv.q), dv.r # 0)
  IN Fl(r.m, r.s - LitGuard)

\* a * b
FlMul(a, b) ==
  LET r == RoundNearestEven(BigMul(a.m, b.m), FALSE)
  IN Fl(r.m, a.e + b.e + r.s)

\* a + b
FlAdd(a, b) ==
  IF a.m = <<>> THEN b
  ELSE IF b.m = <<>> THEN a
  ELSE LET e == IF a.e < b.e THEN a.e ELSE b.e
           r == RoundNearestEven(BigAdd(BigShl(a.m, a.e - e), BigShl(b.m, b.e - e)), FALSE)
       IN Fl(r.m, e + r.s)

\* Math.floor(a)
FlFloor(a) ==
  IF a.e >= 0 THEN BigToInt(BigShl(a.m, a.e)) ELSE BigToInt(BigShr(a.m, 0 - a.e))

(***************************************************************************)
(* Math.random() returns a double in [0, 1).  The draws that become a      *)
(* grid index are doubles: 0, 1/2 and the largest value a 52-bit           *)
(* generator returns, 1 - 2^-52.  The draws that become a weight or        *)
(* decide a click are the rationals k / WeightDen, named by k.             *)
(***************************************************************************)
FlZero == Fl(<<>>, 0)
FlHalf == Fl(<<1>>, -1)
\* 2^n - 1
BigOnes(n) ==
  BigNorm([i \in 1..((n \div LimbBits) + 1) |->
             IF i <= n \div LimbBits THEN Base - 1 ELSE 2 ^ (n % LimbBits) - 1])
FlBelowOne == Fl(BigOnes(MantissaBits - 1), 0 - (MantissaBits - 1))

CoordDraws == [zero |-> FlZero, half |-> FlHalf, belowOne |-> FlBelowOne]

\* the draws one specification takes Math.random() from, per call site:
\* x names elements of CoordDraws, y does so for each of the three passes,
\* w (position weight), c (click test) and cw (click weight) are
\* numerators over WeightDen
DrawSets(x, y, w, c, cw) == [x |-> x, y |-> y, w |-> w, c |-> c, cw |-> cw]

GenDraws ==
  DrawSets({"zero", "belowOne"},
           <<{"zero", "belowOne"}, {"zero", "belowOne"}, {"zero", "belowOne"}>>,
           {0, 1}, {0, 1}, {1})

ViewDraws == DrawSets({"half"}, <<{"half"}, {"half"}, {"half", "belowOne"}>>, {1}, {0}, {1})

(***************************************************************************)
(* generateDummyHeatmap                                                    *)
(***************************************************************************)
width == 192
height == 108

\* what `undefined + number' gives; it stands outside the cell values,
\* which are never negative, and like NaN it fails every test `>= 0'
NaN == -1

\* Array(rows).fill().map(() => Array(cols).fill(0)).  A grid is kept as
\* its shape and the cells that were written; every other cell of the
\* shape holds the fill value 0.
NewGrid_swapped(rows, cols) == [rows |-> cols, cols |-> rows, cells |-> <<>>]

NewGrid(rows, cols) == [rows |-> rows, cols |-> cols, cells |-> <<>>]

\* grid[y][x] for a cell of the shape
Cell(g, y, x) == IF <<y, x>> \in DOMAIN g.cells THEN g.cells[<<y, x>>] ELSE 0

HasRow(g, y) == y \in 0..(g.rows - 1)

SetCell(g, y, x, v) ==
  [g EXCEPT !.cells = [c \in (DOMAIN g.cells) \cup {<<y, x>>} |->
                          IF c = <<y, x>> THEN v ELSE g.cells[c]]]

\* grid[y][x] = weight, in place of +=
AddToCell_assign(g, y, x, weight) ==
  IF x \in 0..(g.cols - 1)
    THEN SetCell(g, y, x, weight)
    ELSE SetCell(g, y, x, NaN)

\* grid[y][x] += weight, for an existing row y; past the end of the row
\* the element read is undefined and the sum stored is NaN
AddToCell(g, y, x, weight) ==
  IF x \in 0..(g.cols - 1)
    THEN SetCell(g, y, x, Cell(g, y, x) + weight)
    ELSE SetCell(g, y, x, NaN)

\* the x index a pass computes from its draw r
SampleX(pass, r) ==
  IF pass = 2
    THEN FlFloor(FlMul(FlMul(r, FlInt(width)), FlLit(2, 10)))
    ELSE FlFloor(FlAdd(FlMul(FlMul(r, FlInt(width)), FlLit(6, 10)),
                       FlMul(FlInt(width), FlLit(2, 10))))

\* the y index a pass computes from its draw r
SampleY(pass, r) ==
  IF pass = 1
    THEN FlFloor(FlAdd(FlMul(FlMul(r, FlInt(height)), FlLit(6, 10)),
                       FlMul(FlInt(height), FlLit(2, 10))))
  ELSE IF pass = 2
    THEN FlFloor(FlMul(FlMul(r, FlInt(height)), FlLit(2, 10)))
  ELSE FlFloor(FlAdd(FlMul(FlMul(r, FlInt(height)), FlLit(2, 10)),
                     FlMul(FlInt(height), FlLit(8, 10))))

\* the indices of every coordinate draw, computed once
XIndex == [pass \in 1..3 |-> [d \in DOMAIN CoordDraws |-> SampleX(pass, CoordDraws[d])]]
YIndex == [pass \in 1..3 |-> [d \in DOMAIN CoordDraws |-> SampleY(pass, CoordDraws[d])]]

\* a position weight without its constant term: Math.random() * 0
PositionWeight_zero(pass, k) == 0

\* Math.random() * 2 + 1 and its siblings, in units of 1 / WeightDen
PositionWeight(pass, k) ==
  IF pass = 2 THEN k * 3 + 1 * WeightDen ELSE k * 2 + 1 * WeightDen

ClickWeight(pass, k) ==
  IF pass = 1 THEN k * 5 + 1 * WeightDen
  ELSE IF pass = 2 THEN k * 8 + 2 * WeightDen
  ELSE k * 6 + 3 * WeightDen

\* Math.random() < 0.3, < 0.4, < 0.5
ClickTest(pass, k) ==
  IF pass = 1 THEN 10 * k < 3 * WeightDen
  ELSE IF pass = 2 THEN 10 * k < 4 * WeightDen
  ELSE 10 * k < 5 * WeightDen

PassSamples(pass) ==
  IF pass = 1 THEN Pass1Samples ELSE IF pass = 2 THEN Pass2Samples ELSE Pass3Samples

(***************************************************************************)
(* State.  Each specification drives one part of the program and leaves    *)
(* the variables of the other parts at rest.                               *)
(***************************************************************************)
VARIABLES
  \* the colour mappers: two input values and the results of the function
  \* that was applied to them
  cm_v1,      \* first input value, in units of 1/ValueDen
  cm_v2,      \* second input value
  cm_fn,      \* "none" | "getColor" | "getHeatColor" | "getTextColor"
  cm_out1,    \* result of cm_fn on cm_v1
  cm_out2,    \* result of cm_fn on cm_v2
  \* DeviceHeatmap
  dh_mounted,      \* the component is mounted
  dh_deviceId,     \* the deviceId prop
  dh_heatmapData,  \* useState(null)
  dh_loading,      \* useState(true)
  dh_interval,     \* id of the live setInterval timer, 0 when none
  dh_pending,      \* fetches in flight
  dh_pc,           \* "idle", or where generateDummyHeatmap stands
  dh_req,          \* the fetch whose catch block is running
  positionData,    \* local of generateDummyHeatmap
  clickData,       \* local of generateDummyHeatmap
  gen_i,           \* loop counter i of the running pass
  \* bookkeeping of the run, not read by the program
  gen_sample,      \* pass, x and y of the sample drawn last
  gen_posDrawn,    \* sum of the position weights drawn by the running call
  gen_clickDrawn,  \* sum of the click weights drawn by the running call
  dh_ended,        \* how the fetch that ended last ended
  dh_fetches,      \* fetches started so far
  \* the view that is hosted and the timers of the page
  view,            \* the component under observation
  timers,          \* timer id -> [owner, live, deviceId captured by the callback]
  callsBy,         \* timer id -> calls of its callback so far
  released,        \* ids of the timers whose effect has been cleaned up
  \* MouseButtonHeatmap
  mb_mounted,
  mb_deviceId,     \* the deviceId prop
  mb_heatmapData,  \* useState(null)
  mb_loading,      \* useState(true)
  mb_error,        \* useState(null)
  mb_timeout,      \* id of the refresh timeout of the effect, 0 when none
  mb_pending,      \* fetches in flight
  mb_ended,        \* how the fetch that ended last ended
  mb_fetches,      \* fetches started so far
  \* IoTDevices
  io_mounted,
  io_devices,          \* client ids of useState([]) devices
  io_selectedDevice,   \* useState(null)
  io_loading,          \* useState(true)
  io_error,            \* useState(null)
  io_refreshInterval,  \* useState(5)
  io_isRefreshing,     \* useState(true)
  io_deviceInterval,   \* deviceInterval of the running device effect
  io_dataInterval,     \* dataInterval of the running data effect, 0 when undefined
  io_pending,          \* fetchDevices calls in flight
  io_fetches,          \* calls of fetchDevices and fetchData so far
  \* IoTMonitor
  im_mounted,
  im_devices,      \* useState([])
  im_loading,      \* useState(true)
  im_error,        \* useState(null)
  im_interval,     \* interval of the effect
  im_pending,      \* getDevices calls in flight
  im_fetches,      \* calls of fetchData so far
  im_returned,     \* the array the getDevices call that ended last resolved with
  \* the browser: localStorage and window.location
  authToken,       \* localStorage item 'authToken'
  location,        \* window.location.href
  \* a top-level call of fetchWithAuth, made directly or by getDevices
  api_pc,          \* "idle" | "request" | "refresh" | "done"
  api_caller,      \* "fetchWithAuth" | "getDevices"
  api_retryCount,  \* parameter retryCount of the running invocation
  api_requests,    \* requests to the endpoint made by the call
  api_refreshes,   \* calls of refreshToken made by the call
  api_status,      \* status of the last answer of the endpoint, 0 when none
  api_refreshed,   \* "none", or what refreshToken returned: "true" | "false"
  api_outcome,     \* how fetchWithAuth ended
  api_result,      \* how the caller's function ended
  api_calls,       \* top-level calls so far
  \* App
  app_pc,               \* "unmounted" | "verify" | "done"
  app_isAuthenticated,  \* useState(false)
  app_user,             \* useState(null)
  app_loading,          \* useState(true)
  app_verify,           \* status of the verify endpoint's answer, -1 when none
  \* SecurityLogs
  sl_mounted,
  sl_role,         \* user.role of the user prop
  sl_logs,         \* useState([])
  sl_loading,      \* useState(true)
  sl_error,        \* useState(null)
  sl_filter,       \* useState('all')
  sl_pending,      \* fetches of the mounted instance in flight
  sl_requests,     \* requests the mounted instance has issued
  \* DeviceManager
  dm_mounted,
  dm_devices,        \* useState([])
  dm_loading,        \* useState(true)
  dm_error,          \* useState(null)
  dm_newDeviceName,  \* useState('')
  dm_newDeviceType,  \* useState('keyboard')
  dm_fetching,       \* fetchDevices of the effect awaits its answer
  dm_adding,         \* handleAddDevice calls that await their answer, each
                     \* with the devices, name and type of its render
  dm_requests,       \* requests the handlers have sent
  dm_calls,          \* calls of handleAddDevice and handleStatusChange
  dm_last            \* the handler call made last

cmVars == <<cm_v1, cm_v2, cm_fn, cm_out1, cm_out2>>
dhViewVars == <<dh_mounted, dh_deviceId, dh_heatmapData, dh_loading, dh_interval,
                dh_pending, dh_ended, dh_fetches>>
genVars == <<dh_pc, dh_req, positionData, clickData, gen_i, gen_sample,
             gen_posDrawn, gen_clickDrawn>>
dhVars == <<dhViewVars, genVars>>
timerVars == <<timers, callsBy, released>>
mbVars == <<mb_mounted, mb_deviceId, mb_heatmapData, mb_loading, mb_error, mb_timeout,
            mb_pending, mb_ended, mb_fetches>>
ioVars == <<io_mounted, io_devices, io_selectedDevice, io_loading, io_error,
            io_refreshInterval, io_isRefreshing, io_deviceInterval, io_dataInterval,
            io_pending, io_fetches>>
imVars == <<im_mounted, im_devices, im_loading, im_error, im_interval, im_pending,
            im_fetches, im_returned>>
browserVars == <<authToken, location>>
apiVars == <<api_pc, api_caller, api_retryCount, api_requests, api_refreshes,
             api_status, api_refreshed, api_outcome, api_result, api_calls>>
appVars == <<app_pc, app_isAuthenticated, app_user, app_loading, app_verify>>
slVars == <<sl_mounted, sl_role, sl_logs, sl_loading, sl_error, sl_filter,
            sl_pending, sl_requests>>
dmVars == <<dm_mounted, dm_devices, dm_loading, dm_error, dm_newDeviceName,
            dm_newDeviceType, dm_fetching, dm_adding, dm_requests, dm_calls, dm_last>>
sessionVars == <<browserVars, apiVars, appVars, slVars, dmVars>>
heatmapVars == <<cmVars, dhVars, timerVars, mbVars, ioVars, imVars>>
vars == <<view, heatmapVars, sessionVars>>
\* what the actions of one part leave alone
notColor == <<view, dhVars, timerVars, mbVars, ioVars, imVars, sessionVars>>
notDeviceHeatmap == <<view, cmVars, mbVars, ioVars, imVars, sessionVars>>
notMouseButtonHeatmap == <<view, cmVars, dhVars, ioVars, imVars, sessionVars>>
notIoTDevices == <<view, cmVars, dhVars, mbVars, imVars, sessionVars>>
notIoTMonitor == <<view, cmVars, dhVars, mbVars, ioVars, sessionVars>>
notApi == <<view, heatmapVars, appVars, slVars, dmVars>>
notApp == <<view, heatmapVars, location, apiVars, slVars, dmVars>>
notSecurityLogs == <<view, heatmapVars, browserVars, apiVars, appVars, dmVars>>
notDeviceManager == <<view, heatmapVars, browserVars, apiVars, appVars, slVars>>

NoResult == "none"

\* a falsy deviceId (null, undefined or '')
NoDevice == ""
DeviceIds == {"mouse-001", "keyboard-001"}

\* heatmapData: null, the body of a successful response, or the grids
\* generateDummyHeatmap publishes
Null == [source |-> "null"]
ApiData(d) == [source |-> "api", deviceId |-> d]
NoGrid == [rows |-> 0, cols |-> 0, cells |-> <<>>]
NoRequest == [deviceId |-> NoDevice]
NoSample == [pass |-> 0, x |-> 0, y |-> 0]
NothingEnded == [outcome |-> "none"]

\* why a fetch of MouseButtonHeatmap lands in the catch block: fetch()
\* rejects, the status is not ok, or response.json() rejects
FailureKinds == {"network", "status", "json"}

IdleColor ==
  /\ cm_v1 = 0
  /\ cm_v2 = 0
  /\ cm_fn = "none"
  /\ cm_out1 = NoResult
  /\ cm_out2 = NoResult

IdleGen ==
  /\ dh_pc = "idle"
  /\ dh_req = NoRequest
  /\ positionData = NoGrid
  /\ clickData = NoGrid
  /\ gen_i = 0
  /\ gen_sample = NoSample
  /\ gen_posDrawn = 0
  /\ gen_clickDrawn = 0

IdleDeviceHeatmap ==
  /\ dh_mounted = FALSE
  /\ dh_deviceId = NoDevice
  /\ dh_heatmapData = Null
  /\ dh_loading = TRUE
  /\ dh_interval = 0
  /\ dh_pending = EmptyBag
  /\ dh_ended = NothingEnded
  /\ dh_fetches = 0
  /\ IdleGen

NoError == "null"

IdleTimers ==
  /\ timers = <<>>
  /\ callsBy = <<>>
  /\ released = {}

IdleMouseButtonHeatmap ==
  /\ mb_mounted = FALSE
  /\ mb_deviceId = NoDevice
  /\ mb_heatmapData = Null
  /\ mb_loading = TRUE
  /\ mb_error = NoError
  /\ mb_timeout = 0
  /\ mb_pending = EmptyBag
  /\ mb_ended = NothingEnded
  /\ mb_fetches = 0

IdleIoTDevices ==
  /\ io_mounted = FALSE
  /\ io_devices = <<>>
  /\ io_selectedDevice = NoDevice
  /\ io_loading = TRUE
  /\ io_error = NoError
  /\ io_refreshInterval = 5
  /\ io_isRefreshing = TRUE
  /\ io_deviceInterval = 0
  /\ io_dataInterval = 0
  /\ io_pending = EmptyBag
  /\ io_fetches = 0

IdleIoTMonitor ==
  /\ im_mounted = FALSE
  /\ im_devices = <<>>
  /\ im_loading = TRUE
  /\ im_error = NoError
  /\ im_interval = 0
  /\ im_pending = EmptyBag
  /\ im_fetches = 0
  /\ im_returned = <<>>

\* localStorage.getItem('authToken') of a browser that holds no token (null;
\* the empty string is as falsy), and the token a login has stored
NoToken == ""
StoredTokens == {"token-1"}

\* window.location.href before and after the redirect of fetchWithAuth
HomeUrl == "/"
LoginUrl == "/login?session=expired"

\* how a call ended: it threw Error(message), or it returned (the response
\* with its status and body, or the array of getDevices)
NoOutcome == [kind |-> "none", message |-> "", status |-> 0, body |-> "", devices |-> <<>>]
Threw(msg) == [NoOutcome EXCEPT !.kind = "threw", !.message = msg]
Response(status, body) ==
  [NoOutcome EXCEPT !.kind = "returned", !.status = status, !.body = body]
Devices(list) == [NoOutcome EXCEPT !.kind = "returned", !.devices = list]

IdleApi ==
  /\ api_pc = "idle"
  /\ api_caller = "fetchWithAuth"
  /\ api_retryCount = 0
  /\ api_requests = 0
  /\ api_refreshes = 0
  /\ api_status = 0
  /\ api_refreshed = "none"
  /\ api_outcome = NoOutcome
  /\ api_result = NoOutcome
  /\ api_calls = 0

IdleApp ==
  /\ app_pc = "unmounted"
  /\ app_isAuthenticated = FALSE
  /\ app_user = "null"
  /\ app_loading = TRUE
  /\ app_verify = -1

IdleSecurityLogs ==
  /\ sl_mounted = FALSE
  /\ sl_role = "admin"
  /\ sl_logs = <<>>
  /\ sl_loading = TRUE
  /\ sl_error = NoError
  /\ sl_filter = "all"
  /\ sl_pending = 0
  /\ sl_requests = 0

\* no handler of DeviceManager has been called
NoCall == [op |-> "none", deviceId |-> "", status |-> "", name |-> ""]

IdleDeviceManager ==
  /\ dm_mounted = FALSE
  /\ dm_devices = <<>>
  /\ dm_loading = TRUE
  /\ dm_error = NoError
  /\ dm_newDeviceName = ""
  /\ dm_newDeviceType = "keyboard"
  /\ dm_fetching = FALSE
  /\ dm_adding = EmptyBag
  /\ dm_requests = 0
  /\ dm_calls = 0
  /\ dm_last = NoCall

IdleSession ==
  /\ authToken = NoToken
  /\ location = HomeUrl
  /\ IdleApi
  /\ IdleApp
  /\ IdleSecurityLogs
  /\ IdleDeviceManager

IdleOtherViews ==
  IdleMouseButtonHeatmap /\ IdleIoTDevices /\ IdleIoTMonitor /\ IdleSession

(***************************************************************************)
(* The colour mappers applied to the two inputs.                           *)
(***************************************************************************)
InitColor ==
  /\ cm_v1 \in Values
  /\ cm_v2 \in Values
  /\ cm_fn = "none"
  /\ cm_out1 = NoResult
  /\ cm_out2 = NoResult
  /\ view = "none"
  /\ IdleDeviceHeatmap
  /\ IdleTimers
  /\ IdleOtherViews

CallGetColor ==
  /\ cm_fn = "none"
  /\ cm_fn' = "getColor"
  /\ cm_out1' = getColor(cm_v1)
  /\ cm_out2' = getColor(cm_v2)
  /\ UNCHANGED <<cm_v1, cm_v2, notColor>>

CallGetHeatColor ==
  /\ cm_fn = "none"
  /\ cm_fn' = "getHeatColor"
  /\ cm_out1' = getHeatColor(cm_v1)
  /\ cm_out2' = getHeatColor(cm_v2)
  /\ UNCHANGED <<cm_v1, cm_v2, notColor>>

CallGetTextColor ==
  /\ cm_fn = "none"
  /\ cm_fn' = "getTextColor"
  /\ cm_out1' = getTextColor(cm_v1)
  /\ cm_out2' = getTextColor(cm_v2)
  /\ UNCHANGED <<cm_v1, cm_v2, notColor>>

NextColor == CallGetColor \/ CallGetHeatColor \/ CallGetTextColor

SpecColor == InitColor /\ [][NextColor]_vars

(***************************************************************************)
(* Timers.  setInterval / setTimeout return the id of a new live timer;    *)
(* clearInterval / clearTimeout end the timer with the given id.  The      *)
(* runtime calls the callback of live timers only.                         *)
(***************************************************************************)
\* a timer that is never armed
SetTimer_unarmed(ts, owner, d) ==
  Append(ts, [owner |-> owner, live |-> FALSE, deviceId |-> d])

SetTimer(ts, owner, d) == Append(ts, [owner |-> owner, live |-> TRUE, deviceId |-> d])

\* a cleanup that leaves the timer running
ClearTimer_leak(ts, id) == ts

\* the cleanup of an effect: clearInterval(id) / clearTimeout(id)
ClearTimer(ts, id) ==
  IF id \in DOMAIN ts THEN [ts EXCEPT ![id].live = FALSE] ELSE ts

\* the timers an effect of `owner' has started
OwnedBy(owner) == {t \in DOMAIN timers : timers[t].owner = owner}

LiveTimers(owner) == {t \in OwnedBy(owner) : timers[t].live}

Zeros(n) == [i \in 1..n |-> 0]

\* the calls the timers 1..n have made
RECURSIVE TimerCalls(_)
TimerCalls(n) == IF n = 0 THEN 0 ELSE callsBy[n] + TimerCalls(n - 1)

\* the callback of timer t is called
Called(t) == [callsBy EXCEPT ![t] = @ + 1]

\* a timeout that stays armed after its call, as an interval does
Expire_repeating(ts, t) == ts

\* a setInterval timer stays live after a call, a setTimeout timer does not
Expire(ts, t) == [ts EXCEPT ![t].live = FALSE]

\* a call of fetch() whose promise is pending, with the deviceId its
\* caller holds; the pending calls of a view form a bag
Request(d) == [deviceId |-> d]

Sent(pending, req) == pending (+) SetToBag({req})

Received(pending, req) == pending (-) SetToBag({req})

(***************************************************************************)
(* DeviceHeatmap.fetchHeatmapData.  The handlers of a response run to      *)
(* completion before anything else runs: while generateDummyHeatmap is     *)
(* under way (dh_pc # "idle") no other action is enabled.                  *)
(***************************************************************************)
\* setHeatmapData / setLoading: a state update of an unmounted component
\* is dropped
SetHeatmapState(data, loading) ==
  IF dh_mounted
    THEN dh_heatmapData' = data /\ dh_loading' = loading
    ELSE UNCHANGED <<dh_heatmapData, dh_loading>>

\* the response is ok and its body parses:
\* setHeatmapData(data); setLoading(false)
DH_FetchOk ==
  /\ dh_pc = "idle"
  /\ \E req \in BagToSet(dh_pending) :
       /\ dh_pending' = Received(dh_pending, req)
       /\ SetHeatmapState(ApiData(req.deviceId), FALSE)
       /\ dh_ended' = [outcome |-> "ok"]
  /\ UNCHANGED <<dh_mounted, dh_deviceId, dh_interval, dh_fetches, genVars,
                 timerVars, notDeviceHeatmap>>

\* fetch() rejects, the status is not ok or response.json() rejects: each
\* lands in the one catch block, which logs the error and has
\* generateDummyHeatmap() build its grids
DH_FetchFail ==
  /\ dh_pc = "idle"
  /\ \E req \in BagToSet(dh_pending) :
       /\ dh_pending' = Received(dh_pending, req)
       /\ dh_req' = req
  /\ dh_pc' = "pass1"
  /\ positionData' = NewGrid(height, width)
  /\ clickData' = NewGrid(height, width)
  /\ gen_i' = 0
  /\ gen_sample' = NoSample
  /\ gen_posDrawn' = 0
  /\ gen_clickDrawn' = 0
  /\ UNCHANGED <<dh_mounted, dh_deviceId, dh_heatmapData, dh_loading, dh_interval,
                 dh_ended, dh_fetches, timerVars, notDeviceHeatmap>>

PassOf(pc) == IF pc = "pass1" THEN 1 ELSE IF pc = "pass2" THEN 2 ELSE 3

\* where the loop stands after iteration i of a pass
AfterSample(pass, i) ==
  IF i + 1 < PassSamples(pass) THEN [pc |-> dh_pc, i |-> i + 1]
  ELSE IF pass = 1 THEN [pc |-> "pass2", i |-> 0]
  ELSE IF pass = 2 THEN [pc |-> "pass3", i |-> 0]
  ELSE [pc |-> "publish", i |-> 0]

\* one iteration of one of the three loops.  positionData[y] of a missing
\* row is undefined and indexing it throws a TypeError, which leaves the
\* catch block: the promise of fetchHeatmapData rejects.
DH_GenSample(D) ==
  /\ dh_pc \in {"pass1", "pass2", "pass3"}
  /\ \E rx \in D.x, ry \in D.y[PassOf(dh_pc)] :
       LET pass == PassOf(dh_pc)
           x == XIndex[pass][rx]
           y == YIndex[pass][ry]
           next == AfterSample(pass, gen_i)
       IN /\ gen_sample' = [pass |-> pass, x |-> x, y |-> y]
          /\ IF ~HasRow(positionData, y)
               THEN /\ dh_pc' = "idle"
                    /\ dh_ended' = [outcome |-> "threw"]
                    /\ dh_req' = NoRequest
                    /\ positionData' = NoGrid
                    /\ clickData' = NoGrid
                    /\ gen_i' = 0
                    /\ UNCHANGED <<gen_posDrawn, gen_clickDrawn>>
               ELSE /\ \E kw \in D.w :
                         /\ positionData' = AddToCell(positionData, y, x, PositionWeight(pass, kw))
                         /\ gen_posDrawn' = gen_posDrawn + PositionWeight(pass, kw)
                    /\ \E kc \in D.c :
                         IF ClickTest(pass, kc)
                           THEN \E kcw \in D.cw :
                                  /\ clickData' = AddToCell(clickData, y, x, ClickWeight(pass, kcw))
                                  /\ gen_clickDrawn' = gen_clickDrawn + ClickWeight(pass, kcw)
                           ELSE UNCHANGED <<clickData, gen_clickDrawn>>
                    /\ dh_pc' = next.pc
                    /\ gen_i' = next.i
                    /\ UNCHANGED <<dh_req, dh_ended>>
  /\ UNCHANGED <<dh_mounted, dh_deviceId, dh_heatmapData, dh_loading, dh_interval,
                 dh_pending, dh_fetches, timerVars, notDeviceHeatmap>>

\* setHeatmapData({position_heatmap, click_heatmap, resolution});
\* setLoading(false)
DH_GenPublish ==
  /\ dh_pc = "publish"
  /\ SetHeatmapState([source |-> "synthetic",
                      position_heatmap |-> positionData,
                      click_heatmap |-> clickData,
                      resolution |-> [width |-> width, height |-> height]], FALSE)
  /\ dh_ended' = [outcome |-> "fallback"]
  /\ dh_pc' = "idle"
  /\ dh_req' = NoRequest
  /\ positionData' = NoGrid
  /\ clickData' = NoGrid
  /\ gen_sample' = NoSample
  /\ gen_posDrawn' = 0
  /\ gen_clickDrawn' = 0
  /\ UNCHANGED <<dh_mounted, dh_deviceId, dh_interval, dh_pending, dh_fetches,
                 gen_i, timerVars, notDeviceHeatmap>>

(***************************************************************************)
(* One call of fetchHeatmapData, from the first render or as a refresh     *)
(* of a view that shows fetched data.                                      *)
(***************************************************************************)
InitGen ==
  /\ IdleColor
  /\ IdleGen
  /\ IdleOtherViews
  /\ view = "DeviceHeatmap"
  /\ dh_mounted = TRUE
  /\ dh_deviceId \in DeviceIds \cup {NoDevice}
  /\ dh_interval = 1
  /\ timers = SetTimer(<<>>, "DeviceHeatmap", dh_deviceId)
  /\ released = {}
  /\ \/ \* the fetch of the first render
        /\ dh_heatmapData = Null
        /\ dh_loading = TRUE
        /\ dh_ended = NothingEnded
        /\ callsBy = <<0>>
        /\ IF dh_deviceId = NoDevice
             THEN dh_pending = EmptyBag /\ dh_fetches = 0
             ELSE dh_pending = SetToBag({Request(dh_deviceId)}) /\ dh_fetches = 1
     \/ \* a refresh by the interval, after the first fetch succeeded
        /\ dh_deviceId # NoDevice
        /\ dh_heatmapData = ApiData(dh_deviceId)
        /\ dh_loading = FALSE
        /\ dh_ended = [outcome |-> "ok"]
        /\ callsBy = <<1>>
        /\ dh_pending = SetToBag({Request(dh_deviceId)})
        /\ dh_fetches = 2

SampleGen == DH_GenSample(GenDraws)

NextGen == DH_FetchOk \/ DH_FetchFail \/ SampleGen \/ DH_GenPublish

SpecGen == InitGen /\ [][NextGen]_vars

(***************************************************************************)
(* The life cycle of DeviceHeatmap: its effect runs on mount and when the  *)
(* deviceId prop changes, its cleanup before each re-run and on unmount.   *)
(***************************************************************************)
\* fetchHeatmapData() as the effect or the interval calls it
DH_StartFetch(d) ==
  IF d = NoDevice
    THEN UNCHANGED <<dh_pending, dh_fetches>>
    ELSE /\ dh_fetches < MaxFetches
         /\ dh_pending' = Sent(dh_pending, Request(d))
         /\ dh_fetches' = dh_fetches + 1

\* the effect body: fetchHeatmapData(); setInterval(fetchHeatmapData, 30000),
\* after the cleanup (if any) has left the timers ts
DH_Effect(d, ts) ==
  /\ Len(ts) < MaxTimers
  /\ DH_StartFetch(d)
  /\ timers' = SetTimer(ts, "DeviceHeatmap", d)
  /\ callsBy' = Append(callsBy, 0)
  /\ dh_interval' = Len(ts) + 1

DH_Mount ==
  /\ view = "DeviceHeatmap"
  /\ ~dh_mounted
  /\ dh_pc = "idle"
  /\ \E d \in DeviceIds \cup {NoDevice} :
       /\ dh_deviceId' = d
       /\ DH_Effect(d, timers)
  /\ dh_mounted' = TRUE
  /\ dh_heatmapData' = Null
  /\ dh_loading' = TRUE
  /\ UNCHANGED <<dh_ended, genVars, released, notDeviceHeatmap>>

\* the parent renders the view with another deviceId
DH_SetDeviceId ==
  /\ dh_mounted
  /\ dh_pc = "idle"
  /\ \E d \in (DeviceIds \cup {NoDevice}) \ {dh_deviceId} :
       /\ dh_deviceId' = d
       /\ DH_Effect(d, ClearTimer(timers, dh_interval))
  /\ released' = released \cup OwnedBy("DeviceHeatmap")
  /\ UNCHANGED <<dh_mounted, dh_heatmapData, dh_loading, dh_ended, genVars,
                 notDeviceHeatmap>>

DH_Unmount ==
  /\ dh_mounted
  /\ dh_pc = "idle"
  /\ dh_mounted' = FALSE
  /\ timers' = ClearTimer(timers, dh_interval)
  /\ released' = released \cup OwnedBy("DeviceHeatmap")
  /\ dh_interval' = 0
  /\ UNCHANGED <<dh_deviceId, dh_heatmapData, dh_loading, dh_pending, dh_ended,
                 dh_fetches, genVars, callsBy, notDeviceHeatmap>>

\* the runtime calls fetchHeatmapData of a live interval
DH_IntervalFires ==
  /\ dh_pc = "idle"
  /\ \E t \in LiveTimers("DeviceHeatmap") :
       /\ TimerCalls(Len(callsBy)) < MaxFetches
       /\ DH_StartFetch(timers[t].deviceId)
       /\ callsBy' = Called(t)
  /\ UNCHANGED <<dh_mounted, dh_deviceId, dh_heatmapData, dh_loading, dh_interval,
                 dh_ended, genVars, timers, released, notDeviceHeatmap>>

SampleView == DH_GenSample(ViewDraws)

NextDeviceHeatmap ==
  \/ DH_Mount
  \/ DH_SetDeviceId
  \/ DH_Unmount
  \/ DH_IntervalFires
  \/ DH_FetchOk
  \/ DH_FetchFail
  \/ SampleView
  \/ DH_GenPublish

(***************************************************************************)
(* MouseButtonHeatmap                                                      *)
(***************************************************************************)
\* what generateFallbackData hands to setHeatmapData
FallbackData ==
  [source |-> "fallback",
   contact_points |-> [top_left |-> 92, top_right |-> 74, top_middle |-> 45,
                       left_front |-> 87, left_back |-> 65, left_bottom |-> 53,
                       right_side |-> 28, palm_rest |-> 80, wrist_area |-> 50],
   pressure |-> [top_left |-> 88, top_right |-> 72, left_front |-> 92, palm_rest |-> 65],
   click_data |-> [left_click |-> 6452, right_click |-> 2341, middle_click |-> 478,
                   side_button_1 |-> 965, side_button_2 |-> 1247],
   posture_issues |-> <<"excessive_wrist_extension", "thumb_overextension">>]

\* the zones the render colours with getHeatColor(heatmapData.contact_points.<zone>)
KnownZones ==
  {"top_left", "top_right", "top_middle", "palm_rest", "left_front",
   "left_back", "right_side"}

\* bodies the contact-heatmap endpoint answers with: a contact_points map
\* over the zones it has readings for, and the click counters of the device
ApiIntensity == 30
ApiClicks == 100
ContactMaps ==
  {[z \in zs |-> ApiIntensity] : zs \in {KnownZones, KnownZones \ {"top_left"}}}
MbApiData(d, points) ==
  [source |-> "api", deviceId |-> d,
   contact_points |-> points,
   click_data |-> [left_click |-> ApiClicks, right_click |-> ApiClicks,
                   middle_click |-> ApiClicks, side_button_1 |-> ApiClicks,
                   side_button_2 |-> ApiClicks],
   posture_issues |-> <<>>]

\* getHeatColor(undefined): every `value < k` is false, so the last return
\* is taken, and its alpha undefined / 100 is NaN (written 0/0)
NaNAlpha == <<0, 0>>
getHeatColorUndefined == RGBA(Rat(255, 1), Rat(0, 1), Rat(0, 1), NaNAlpha)

\* backgroundColor of a zone: getHeatColor(heatmapData.contact_points.<zone>)
ZoneBackground(points, zone) ==
  IF zone \in DOMAIN points
    THEN getHeatColor(points[zone] * ValueDen)
    ELSE getHeatColorUndefined

\* err.message of the three ways into the catch block
ErrorMessage(kind) ==
  IF kind = "status" THEN "Failed to fetch mouse contact heatmap data"
  ELSE IF kind = "network" THEN "network error"
  ELSE "invalid json"

\* fetchHeatmapData() up to its await: the guard, setLoading(true),
\* setError(null) and the request; loading and error are the state the
\* call finds
MB_StartFetch(d, loading, error) ==
  IF d = NoDevice
    THEN /\ mb_loading' = loading
         /\ mb_error' = error
         /\ UNCHANGED <<mb_pending, mb_fetches>>
    ELSE /\ mb_fetches < MaxFetches
         /\ mb_loading' = (IF mb_mounted' THEN TRUE ELSE loading)
         /\ mb_error' = (IF mb_mounted' THEN NoError ELSE error)
         /\ mb_pending' = Sent(mb_pending, Request(d))
         /\ mb_fetches' = mb_fetches + 1

\* the effect body: fetchHeatmapData(); setTimeout(..., 10000)
MB_Effect(d, ts, loading, error) ==
  /\ Len(ts) < MaxTimers
  /\ MB_StartFetch(d, loading, error)
  /\ timers' = SetTimer(ts, "MouseButtonHeatmap", d)
  /\ callsBy' = Append(callsBy, 0)
  /\ mb_timeout' = Len(ts) + 1

MB_Mount ==
  /\ view = "MouseButtonHeatmap"
  /\ ~mb_mounted
  /\ mb_mounted' = TRUE
  /\ mb_heatmapData' = Null
  /\ \E d \in DeviceIds \cup {NoDevice} :
       /\ mb_deviceId' = d
       /\ MB_Effect(d, timers, TRUE, NoError)
  /\ UNCHANGED <<mb_ended, released, notMouseButtonHeatmap>>

MB_SetDeviceId ==
  /\ mb_mounted
  /\ mb_mounted' = mb_mounted
  /\ \E d \in (DeviceIds \cup {NoDevice}) \ {mb_deviceId} :
       /\ mb_deviceId' = d
       /\ MB_Effect(d, ClearTimer(timers, mb_timeout), mb_loading, mb_error)
  /\ released' = released \cup OwnedBy("MouseButtonHeatmap")
  /\ UNCHANGED <<mb_heatmapData, mb_ended, notMouseButtonHeatmap>>

MB_Unmount ==
  /\ mb_mounted
  /\ mb_mounted' = FALSE
  /\ timers' = ClearTimer(timers, mb_timeout)
  /\ released' = released \cup OwnedBy("MouseButtonHeatmap")
  /\ mb_timeout' = 0
  /\ UNCHANGED <<mb_deviceId, mb_heatmapData, mb_loading, mb_error, mb_pending,
                 mb_ended, mb_fetches, callsBy, notMouseButtonHeatmap>>

\* the runtime calls the callback of the live timeout, once
MB_TimeoutFires ==
  /\ mb_mounted' = mb_mounted
  /\ \E t \in LiveTimers("MouseButtonHeatmap") :
       /\ MB_StartFetch(timers[t].deviceId, mb_loading, mb_error)
       /\ callsBy' = Called(t)
       /\ timers' = Expire(timers, t)
  /\ UNCHANGED <<mb_deviceId, mb_heatmapData, mb_timeout, mb_ended,
                 released, notMouseButtonHeatmap>>

\* setHeatmapData(data); setLoading(false)
MB_FetchOk ==
  /\ \E req \in BagToSet(mb_pending) :
       /\ mb_pending' = Received(mb_pending, req)
       /\ mb_ended' = [outcome |-> "ok"]
       /\ IF mb_mounted
            THEN /\ \E points \in ContactMaps :
                      mb_heatmapData' = MbApiData(req.deviceId, points)
                 /\ mb_loading' = FALSE
            ELSE UNCHANGED <<mb_heatmapData, mb_loading>>
  /\ UNCHANGED <<mb_mounted, mb_deviceId, mb_error, mb_timeout, mb_fetches,
                 timerVars, notMouseButtonHeatmap>>

\* the catch block: setError(err.message); generateFallbackData()
MB_FetchFail ==
  /\ \E req \in BagToSet(mb_pending), kind \in FailureKinds :
       /\ mb_pending' = Received(mb_pending, req)
       /\ mb_ended' = [outcome |-> "fallback"]
       /\ IF mb_mounted
            THEN /\ mb_error' = ErrorMessage(kind)
                 /\ mb_heatmapData' = FallbackData
                 /\ mb_loading' = FALSE
            ELSE UNCHANGED <<mb_error, mb_heatmapData, mb_loading>>
  /\ UNCHANGED <<mb_mounted, mb_deviceId, mb_timeout, mb_fetches, timerVars,
                 notMouseButtonHeatmap>>

NextMouseButtonHeatmap ==
  \/ MB_Mount
  \/ MB_SetDeviceId
  \/ MB_Unmount
  \/ MB_TimeoutFires
  \/ MB_FetchOk
  \/ MB_FetchFail

(***************************************************************************)
(* IoTDevices: the device effect (deps [selectedDevice]) and the data      *)
(* effect (deps [selectedDevice, refreshInterval, isRefreshing]).          *)
(***************************************************************************)
\* the client ids a device list response leaves after the type filter
DeviceLists == {<<>>, <<"mouse-001">>, <<"keyboard-001", "mouse-001">>}

FallbackDevices == <<"mouse-001", "keyboard-001">>

\* the options of the refresh interval select
RefreshIntervals == {1, 5, 10, 30}

Range(f) == {f[i] : i \in DOMAIN f}

\* the commit of a render with the state (sel, ri, isr): the cleanups of
\* the effects whose deps changed run first, then the effect bodies
IO_Commit(sel, ri, isr) ==
  LET devRerun == sel # io_selectedDevice
      dataRerun == devRerun \/ ri # io_refreshInterval \/ isr # io_isRefreshing
      ts1 == IF devRerun THEN ClearTimer(timers, io_deviceInterval) ELSE timers
      ts2 == IF dataRerun /\ io_dataInterval # 0
               THEN ClearTimer(ts1, io_dataInterval) ELSE ts1
      ts3 == IF devRerun THEN SetTimer(ts2, "IoTDevices.devices", sel) ELSE ts2
      startData == dataRerun /\ isr /\ sel # NoDevice
      ts4 == IF startData THEN SetTimer(ts3, "IoTDevices.data", sel) ELSE ts3
      calls == (IF devRerun THEN 1 ELSE 0) + (IF startData THEN 1 ELSE 0)
  IN /\ Len(ts4) <= MaxIoTimers
     /\ io_fetches + calls <= MaxIoFetches
     /\ timers' = ts4
     /\ callsBy' = callsBy \o Zeros(Len(ts4) - Len(timers))
     /\ released' = released
                      \cup (IF devRerun THEN OwnedBy("IoTDevices.devices") ELSE {})
                      \cup (IF dataRerun THEN OwnedBy("IoTDevices.data") ELSE {})
     /\ io_deviceInterval' = (IF devRerun THEN Len(ts2) + 1 ELSE io_deviceInterval)
     /\ io_dataInterval' = (IF ~dataRerun THEN io_dataInterval
                             ELSE IF startData THEN Len(ts3) + 1 ELSE 0)
     /\ io_fetches' = io_fetches + calls
     /\ io_selectedDevice' = sel
     /\ io_refreshInterval' = ri
     /\ io_isRefreshing' = isr

\* first render: fetchDevices() and its interval; selectedDevice is null,
\* so the data effect starts nothing
IO_Mount ==
  /\ view = "IoTDevices"
  /\ ~io_mounted
  /\ Len(timers) < MaxIoTimers
  /\ io_fetches < MaxIoFetches
  /\ io_mounted' = TRUE
  /\ io_devices' = <<>>
  /\ io_selectedDevice' = NoDevice
  /\ io_loading' = TRUE
  /\ io_error' = NoError
  /\ io_refreshInterval' = 5
  /\ io_isRefreshing' = TRUE
  /\ timers' = SetTimer(timers, "IoTDevices.devices", NoDevice)
  /\ callsBy' = Append(callsBy, 0)
  /\ io_deviceInterval' = Len(timers) + 1
  /\ io_dataInterval' = 0
  /\ io_pending' = Sent(io_pending, Request(NoDevice))
  /\ io_fetches' = io_fetches + 1
  /\ UNCHANGED <<released, notIoTDevices>>

\* a state update of the unmounted component is dropped
IO_Dropped ==
  UNCHANGED <<io_devices, io_selectedDevice, io_loading, io_error, io_refreshInterval,
              io_isRefreshing, io_deviceInterval, io_dataInterval, io_fetches, timerVars>>

\* the requests of the calls of fetchDevices that the commit made
IO_Started(req) ==
  LET rest == Received(io_pending, req)
  IN IF io_mounted /\ io_selectedDevice' # io_selectedDevice
       THEN Sent(rest, Request(io_selectedDevice'))
       ELSE rest

\* fetchDevices: the response is ok and lists `list'
IO_DevicesOk ==
  /\ \E req \in BagToSet(io_pending), list \in DeviceLists :
       /\ IF io_mounted
            THEN /\ io_devices' = list
                 /\ io_loading' = FALSE
                 /\ io_error' = io_error
                 /\ IO_Commit(IF Len(list) > 0 /\ req.deviceId = NoDevice
                                 THEN list[1] ELSE io_selectedDevice,
                               io_refreshInterval, io_isRefreshing)
            ELSE IO_Dropped
       /\ io_pending' = IO_Started(req)
  /\ UNCHANGED <<io_mounted, notIoTDevices>>

\* fetchDevices: the catch block
IO_DevicesFail ==
  /\ \E req \in BagToSet(io_pending) :
       /\ IF io_mounted
            THEN /\ io_devices' = FallbackDevices
                 /\ io_loading' = FALSE
                 /\ io_error' = "Failed to load devices. Please try again."
                 /\ IO_Commit(IF req.deviceId = NoDevice
                                 THEN FallbackDevices[1] ELSE io_selectedDevice,
                               io_refreshInterval, io_isRefreshing)
            ELSE IO_Dropped
       /\ io_pending' = IO_Started(req)
  /\ UNCHANGED <<io_mounted, notIoTDevices>>

\* the controls are rendered once loading is over and no error is set
IO_Rendered == io_mounted /\ ~io_loading /\ io_error = NoError

\* onChange of the sensor select
IO_SelectDevice ==
  /\ IO_Rendered
  /\ \E d \in (Range(io_devices) \cup {NoDevice}) \ {io_selectedDevice} :
       IO_Commit(d, io_refreshInterval, io_isRefreshing)
  /\ io_pending' = Sent(io_pending, Request(io_selectedDevice'))
  /\ UNCHANGED <<io_mounted, io_devices, io_loading, io_error, notIoTDevices>>

\* onChange of the refresh interval select
IO_SetRefreshInterval ==
  /\ IO_Rendered
  /\ \E n \in RefreshIntervals \ {io_refreshInterval} :
       IO_Commit(io_selectedDevice, n, io_isRefreshing)
  /\ UNCHANGED <<io_mounted, io_devices, io_loading, io_error, io_pending,
                 notIoTDevices>>

\* onClick of Pause / Resume
IO_ToggleRefreshing ==
  /\ IO_Rendered
  /\ IO_Commit(io_selectedDevice, io_refreshInterval, ~io_isRefreshing)
  /\ UNCHANGED <<io_mounted, io_devices, io_loading, io_error, io_pending,
                 notIoTDevices>>

\* the runtime calls fetchDevices of a live device interval
IO_DeviceIntervalFires ==
  /\ io_fetches < MaxIoFetches
  /\ \E t \in LiveTimers("IoTDevices.devices") :
       /\ callsBy' = Called(t)
       /\ io_pending' = Sent(io_pending, Request(timers[t].deviceId))
  /\ io_fetches' = io_fetches + 1
  /\ UNCHANGED <<io_mounted, io_devices, io_selectedDevice, io_loading, io_error,
                 io_refreshInterval, io_isRefreshing, io_deviceInterval,
                 io_dataInterval, timers, released, notIoTDevices>>

\* the runtime calls fetchData of a live data interval
IO_DataIntervalFires ==
  /\ io_fetches < MaxIoFetches
  /\ \E t \in LiveTimers("IoTDevices.data") : callsBy' = Called(t)
  /\ io_fetches' = io_fetches + 1
  /\ UNCHANGED <<io_mounted, io_devices, io_selectedDevice, io_loading, io_error,
                 io_refreshInterval, io_isRefreshing, io_deviceInterval,
                 io_dataInterval, io_pending, timers, released, notIoTDevices>>

\* both cleanups: clearInterval(deviceInterval);
\* if (dataInterval) clearInterval(dataInterval)
IO_Unmount ==
  /\ io_mounted
  /\ io_mounted' = FALSE
  /\ timers' = (IF io_dataInterval # 0
                  THEN ClearTimer(ClearTimer(timers, io_deviceInterval), io_dataInterval)
                  ELSE ClearTimer(timers, io_deviceInterval))
  /\ released' = released \cup OwnedBy("IoTDevices.devices") \cup OwnedBy("IoTDevices.data")
  /\ io_deviceInterval' = 0
  /\ io_dataInterval' = 0
  /\ UNCHANGED <<io_devices, io_selectedDevice, io_loading, io_error,
                 io_refreshInterval, io_isRefreshing, io_pending, io_fetches,
                 callsBy, notIoTDevices>>

NextIoTDevices ==
  \/ IO_Mount
  \/ IO_DevicesOk
  \/ IO_DevicesFail
  \/ IO_SelectDevice
  \/ IO_SetRefreshInterval
  \/ IO_ToggleRefreshing
  \/ IO_DeviceIntervalFires
  \/ IO_DataIntervalFires
  \/ IO_Unmount

(***************************************************************************)
(* IoTMonitor: one effect with no deps.                                    *)
(***************************************************************************)
\* fetchData(); setInterval(fetchData, 1000)
IM_Mount ==
  /\ view = "IoTMonitor"
  /\ ~im_mounted
  /\ Len(timers) < MaxTimers
  /\ im_fetches < MaxFetches
  /\ im_mounted' = TRUE
  /\ im_devices' = <<>>
  /\ im_loading' = TRUE
  /\ im_error' = NoError
  /\ timers' = SetTimer(timers, "IoTMonitor", NoDevice)
  /\ callsBy' = Append(callsBy, 0)
  /\ im_interval' = Len(timers) + 1
  /\ im_pending' = Sent(im_pending, Request(NoDevice))
  /\ im_fetches' = im_fetches + 1
  /\ UNCHANGED <<im_returned, released, notIoTMonitor>>

IM_IntervalFires ==
  /\ im_fetches < MaxFetches
  /\ \E t \in LiveTimers("IoTMonitor") : callsBy' = Called(t)
  /\ im_pending' = Sent(im_pending, Request(NoDevice))
  /\ im_fetches' = im_fetches + 1
  /\ UNCHANGED <<im_mounted, im_devices, im_loading, im_error, im_interval,
                 im_returned, timers, released, notIoTMonitor>>

\* response.devices || [] where response is the array getDevices resolved
\* with: an array has no property `devices', so the value is []
DevicesField(response) == <<>>

\* getDevices() resolves with an array (the list of the response, or []
\* from its own catch); setDevices(response.devices || []);
\* setError(null); finally setLoading(false)
IM_FetchDone ==
  /\ \E req \in BagToSet(im_pending), list \in DeviceLists :
       /\ im_pending' = Received(im_pending, req)
       /\ im_returned' = list
       /\ IF im_mounted
            THEN /\ im_devices' = DevicesField(list)
                 /\ im_error' = NoError
                 /\ im_loading' = FALSE
            ELSE UNCHANGED <<im_devices, im_error, im_loading>>
  /\ UNCHANGED <<im_mounted, im_interval, im_fetches, timerVars, notIoTMonitor>>

IM_Unmount ==
  /\ im_mounted
  /\ im_mounted' = FALSE
  /\ timers' = ClearTimer(timers, im_interval)
  /\ released' = released \cup OwnedBy("IoTMonitor")
  /\ im_interval' = 0
  /\ UNCHANGED <<im_devices, im_loading, im_error, im_pending, im_fetches,
                 im_returned, callsBy, notIoTMonitor>>

NextIoTMonitor == IM_Mount \/ IM_IntervalFires \/ IM_FetchDone \/ IM_Unmount

(***************************************************************************)
(* api.js: fetchWithAuth, refreshToken and getDevices.  One top-level call *)
(* runs at a time; between its awaits another tab of the browser may log   *)
(* out or log in, which changes the stored token.                          *)
(***************************************************************************)
\* what the network answers: status 0 stands for a fetch that rejects, the
\* body for what response.json() gives ("invalid": it rejects)
Bodies == {"invalid", "null", "empty", "error", "devices"}
EndpointAnswers == [status : {0, 200, 401, 403, 500}, body : Bodies]
RefreshAnswers == [status : {0, 200, 401}, body : {"invalid", "token", "missing", "blank"}]
ServerDevices == <<"mouse-001">>

\* response.ok
IsOk(status) == status >= 200 /\ status < 300

\* localStorage.setItem('authToken', data.token): a missing field is stored
\* as the string "undefined", an empty one as the empty string
StoredToken(body) ==
  IF body = "token" THEN "token-2"
  ELSE IF body = "missing" THEN "undefined"
  ELSE NoToken

\* errorData.error || `Request failed with status ${response.status}`
ErrorMessageOf(a) ==
  IF a.body = "error" THEN "server error"
  ELSE IF a.status = 403 THEN "Request failed with status 403"
  ELSE "Request failed with status 500"

\* a retry that is allowed whatever retryCount is
CanRefresh_always(retryCount) == TRUE

\* if (retryCount === 0)
CanRefresh(retryCount) == retryCount = 0

\* a removeItem that leaves the item in place
removeItem_kept(token) == token

\* localStorage.removeItem('authToken')
removeItem(token) == NoToken

\* a getDevices whose catch block rethrows
getDevices_rethrow(outcome) ==
  IF outcome.kind = "threw" THEN outcome ELSE Devices(<<>>)

\* getDevices, given how its fetchWithAuth call ended: data.devices || [],
\* and [] from the catch block (fetchWithAuth threw, json() rejected, or
\* data is null)
getDevices(outcome) ==
  IF outcome.kind = "returned" /\ outcome.body = "devices"
    THEN Devices(ServerDevices)
    ELSE Devices(<<>>)

\* the top-level call ends
API_Ends(outcome) ==
  /\ api_pc' = "done"
  /\ api_outcome' = outcome
  /\ api_result' = IF api_caller' = "getDevices" THEN getDevices(outcome) ELSE outcome

\* fetchWithAuth(endpoint, options, retryCount) up to its await of fetch
API_Invoke(token, retryCount, requests) ==
  /\ api_retryCount' = retryCount
  /\ IF token = NoToken
       THEN /\ API_Ends(Threw("Authentication required"))
            /\ api_requests' = requests
       ELSE /\ requests < MaxRequests
            /\ api_pc' = "request"
            /\ api_requests' = requests + 1
            /\ api_outcome' = NoOutcome
            /\ api_result' = NoOutcome

\* localStorage.removeItem('authToken'); window.location.href = ...; throw
API_SessionExpired ==
  /\ authToken' = removeItem(authToken)
  /\ location' = LoginUrl
  /\ API_Ends(Threw("Authentication token expired"))
  /\ UNCHANGED <<api_retryCount, api_requests>>

API_Call ==
  /\ view = "api"
  /\ api_pc \in {"idle", "done"}
  /\ api_calls < MaxApiCalls
  /\ api_calls' = api_calls + 1
  /\ \E c \in {"fetchWithAuth", "getDevices"} : api_caller' = c
  /\ api_refreshes' = 0
  /\ api_status' = 0
  /\ api_refreshed' = "none"
  /\ API_Invoke(authToken, 0, 0)
  /\ UNCHANGED <<browserVars, notApi>>

\* the endpoint's answer arrives: the rest of the try block, and
\* refreshToken() up to its await of fetch
API_Response ==
  /\ api_pc = "request"
  /\ UNCHANGED <<api_caller, api_calls>>
  /\ \E a \in EndpointAnswers :
       /\ api_status' = a.status
       /\ IF a.status = 0
            THEN /\ API_Ends(Threw("Failed to fetch"))
                 /\ UNCHANGED <<browserVars, api_retryCount, api_requests,
                                api_refreshes, api_refreshed>>
          ELSE IF a.status = 401
            THEN IF CanRefresh(api_retryCount)
                   THEN /\ api_refreshes' = api_refreshes + 1
                        /\ IF authToken = NoToken
                             THEN /\ api_refreshed' = "false"
                                  /\ API_SessionExpired
                             ELSE /\ api_pc' = "refresh"
                                  /\ UNCHANGED <<browserVars, api_retryCount,
                                                 api_requests, api_refreshed,
                                                 api_outcome, api_result>>
                   ELSE /\ API_SessionExpired
                        /\ UNCHANGED <<api_refreshes, api_refreshed>>
          ELSE /\ IF IsOk(a.status)
                    THEN API_Ends(Response(a.status, a.body))
                    ELSE API_Ends(Threw(ErrorMessageOf(a)))
               /\ UNCHANGED <<browserVars, api_retryCount, api_requests,
                              api_refreshes, api_refreshed>>
  /\ UNCHANGED notApi

\* the refresh endpoint's answer arrives: the rest of refreshToken, then
\* the retry or the end of the session
API_RefreshResponse ==
  /\ api_pc = "refresh"
  /\ UNCHANGED <<api_caller, api_calls, api_refreshes, api_status>>
  /\ \E r \in RefreshAnswers :
       IF IsOk(r.status) /\ r.body # "invalid"
         THEN /\ authToken' = StoredToken(r.body)
              /\ api_refreshed' = "true"
              /\ API_Invoke(authToken', api_retryCount + 1, api_requests)
              /\ UNCHANGED location
         ELSE /\ api_refreshed' = "false"
              /\ API_SessionExpired
  /\ UNCHANGED notApi

\* another tab logs out or logs in while the call awaits an answer
API_OtherTab ==
  /\ view = "api"
  /\ api_pc \in {"request", "refresh"}
  /\ \E t \in ({NoToken} \cup StoredTokens) \ {authToken} : authToken' = t
  /\ UNCHANGED <<location, apiVars, notApi>>

NextApi ==
  \/ API_Call
  \/ API_Response
  \/ API_RefreshResponse
  \/ API_OtherTab

(***************************************************************************)
(* App: checkAuth of the mount effect, handleLogin and handleLogout.       *)
(***************************************************************************)
VerifyAnswers == [status : {0, 200, 401, 403, 500}, body : {"invalid", "user", "error"}]

\* the effect: checkAuth() up to its await of fetch
APP_Mount ==
  /\ view = "App"
  /\ app_pc = "unmounted"
  /\ IF authToken = NoToken
       THEN /\ app_pc' = "done"
            /\ app_isAuthenticated' = FALSE
            /\ app_loading' = FALSE
       ELSE /\ app_pc' = "verify"
            /\ UNCHANGED <<app_isAuthenticated, app_loading>>
  /\ UNCHANGED <<app_user, app_verify, authToken, notApp>>

\* the verify endpoint's answer arrives: the rest of checkAuth
APP_VerifyResponse ==
  /\ app_pc = "verify"
  /\ app_pc' = "done"
  /\ app_loading' = FALSE
  /\ \E a \in VerifyAnswers :
       /\ app_verify' = a.status
       /\ IF a.status = 0
            THEN UNCHANGED <<authToken, app_user, app_isAuthenticated>>
          ELSE IF a.status = 401
            THEN /\ authToken' = removeItem(authToken)
                 /\ app_isAuthenticated' = FALSE
                 /\ UNCHANGED app_user
          ELSE IF a.body = "invalid"
            THEN UNCHANGED <<authToken, app_user, app_isAuthenticated>>
          ELSE /\ app_user' = a.body
               /\ app_isAuthenticated' = TRUE
               /\ UNCHANGED authToken
  /\ UNCHANGED notApp

\* the Login page is rendered when App is neither loading nor authenticated
APP_handleLogin ==
  /\ app_pc = "done"
  /\ ~app_loading
  /\ ~app_isAuthenticated
  /\ \E t \in StoredTokens : authToken' = t
  /\ app_user' = "user"
  /\ app_isAuthenticated' = TRUE
  /\ UNCHANGED <<app_pc, app_loading, app_verify, notApp>>

\* the Header is rendered when App is authenticated
APP_handleLogout ==
  /\ app_pc = "done"
  /\ ~app_loading
  /\ app_isAuthenticated
  /\ authToken' = removeItem(authToken)
  /\ app_user' = "null"
  /\ app_isAuthenticated' = FALSE
  /\ UNCHANGED <<app_pc, app_loading, app_verify, notApp>>

NextApp ==
  \/ APP_Mount
  \/ APP_VerifyResponse
  \/ APP_handleLogin
  \/ APP_handleLogout

(***************************************************************************)
(* SecurityLogs: its effect with dependencies [user, filter].  The user    *)
(* prop is the one App holds while the page is mounted.                    *)
(***************************************************************************)
Roles == {"admin", "player", "undefined"}
Filters == {"all", "warning", "critical"}
LogsAnswers == [status : {0, 200, 403, 500}, body : {"invalid", "null", "empty", "logs"}]
ServerLogs == <<"login_failure">>
AccessDenied == "Access denied. Admin privileges required."

\* a check that lets every role through
IsAdmin_anyone(role) == TRUE

\* user.role === 'admin'
IsAdmin(role) == role = "admin"

\* the effect body, run with the error state it finds
SL_Effect(role, error) ==
  IF ~IsAdmin(role)
    THEN /\ sl_error' = AccessDenied
         /\ sl_loading' = FALSE
         /\ UNCHANGED <<sl_pending, sl_requests>>
    ELSE /\ sl_requests < MaxSlRequests
         /\ sl_loading' = TRUE
         /\ sl_error' = error
         /\ sl_pending' = sl_pending + 1
         /\ sl_requests' = sl_requests + 1

SL_Mount ==
  /\ view = "SecurityLogs"
  /\ ~sl_mounted
  /\ sl_mounted' = TRUE
  /\ \E role \in Roles :
       /\ sl_role' = role
       /\ SL_Effect(role, NoError)
  /\ UNCHANGED <<sl_logs, sl_filter, notSecurityLogs>>

\* the filter buttons are rendered when the view is neither loading nor in
\* its error state
SL_SetFilter ==
  /\ sl_mounted
  /\ ~sl_loading
  /\ sl_error = NoError
  /\ \E f \in Filters \ {sl_filter} : sl_filter' = f
  /\ SL_Effect(sl_role, sl_error)
  /\ UNCHANGED <<sl_mounted, sl_role, sl_logs, notSecurityLogs>>

\* the answer of the security-logs endpoint arrives: the rest of
\* fetchSecurityLogs
SL_Response ==
  /\ sl_mounted
  /\ sl_pending > 0
  /\ sl_pending' = sl_pending - 1
  /\ sl_loading' = FALSE
  /\ \E a \in LogsAnswers :
       IF a.status = 0
         THEN sl_error' = "Failed to fetch" /\ UNCHANGED sl_logs
       ELSE IF ~IsOk(a.status)
         THEN /\ sl_error' = (IF a.status = 403 THEN AccessDenied
                              ELSE "Failed to fetch security logs")
              /\ UNCHANGED sl_logs
       ELSE IF a.body = "invalid"
         THEN sl_error' = "Unexpected end of JSON input" /\ UNCHANGED sl_logs
       ELSE IF a.body = "null"
         THEN sl_error' = "Cannot read properties of null" /\ UNCHANGED sl_logs
       ELSE /\ sl_logs' = (IF a.body = "logs" THEN ServerLogs ELSE <<>>)
            /\ UNCHANGED sl_error
  /\ UNCHANGED <<sl_mounted, sl_role, sl_filter, sl_requests, notSecurityLogs>>

\* the instance is discarded with its state; the answers to its fetches
\* update nothing
SL_Unmount ==
  /\ sl_mounted
  /\ sl_mounted' = FALSE
  /\ sl_role' = "admin"
  /\ sl_logs' = <<>>
  /\ sl_loading' = TRUE
  /\ sl_error' = NoError
  /\ sl_filter' = "all"
  /\ sl_pending' = 0
  /\ sl_requests' = 0
  /\ UNCHANGED notSecurityLogs

NextSecurityLogs ==
  \/ SL_Mount
  \/ SL_SetFilter
  \/ SL_Response
  \/ SL_Unmount

(***************************************************************************)
(* DeviceManager: the effect that loads the devices, the form of the new   *)
(* device and the two handlers.  A handler works with the devices, name    *)
(* and type of the render it was created in.                               *)
(***************************************************************************)
Device(id, name, type, status) ==
  [client_id |-> id, name |-> name, device_type |-> type, status |-> status]

\* setSampleDevices
SampleDevices ==
  <<Device("sample1", "Sample Gaming PC (Fallback)", "system", "active"),
    Device("sample2", "Sample Gaming Keyboard (Fallback)", "keyboard", "active")>>

\* data.devices of a well-formed answer to /api/devices
RegisteredDevices == <<Device("dev-1", "Mouse", "mouse", "disabled")>>

\* names typed into the form and types chosen in it
DeviceNames == {"", "Pad"}
DeviceTypes == {"keyboard", "mouse"}

\* the device handleAddDevice builds: from the server's data when the
\* answer is ok and parses, else the fallback with a random client_id
NewDevice(answer, name, type) ==
  IF answer = "ok"
    THEN Device("dev-2", name, type, "active")
    ELSE Device("dev_r4nd0m", name, type, "active")

\* a map that sets the status of every device
WithStatus_all(devices, deviceId, newStatus) ==
  [i \in DOMAIN devices |-> [devices[i] EXCEPT !.status = newStatus]]

\* devices.map(device => device.client_id === deviceId
\*                         ? { ...device, status: newStatus } : device)
WithStatus(devices, deviceId, newStatus) ==
  [i \in DOMAIN devices |->
     IF devices[i].client_id = deviceId
       THEN [devices[i] EXCEPT !.status = newStatus]
       ELSE devices[i]]

\* the effect: fetchDevices() up to its await of fetch
DM_Mount ==
  /\ view = "DeviceManager"
  /\ ~dm_mounted
  /\ dm_mounted' = TRUE
  /\ dm_loading' = TRUE
  /\ dm_fetching' = TRUE
  /\ UNCHANGED <<dm_devices, dm_error, dm_newDeviceName, dm_newDeviceType,
                 dm_adding, dm_requests, dm_calls, dm_last, notDeviceManager>>

\* the answer to /api/devices arrives: the rest of fetchDevices
DM_DevicesResponse ==
  /\ dm_mounted
  /\ dm_fetching
  /\ dm_fetching' = FALSE
  /\ dm_loading' = FALSE
  /\ \E answer \in {"ok", "malformed", "status", "network"} :
       IF answer = "ok"
         THEN dm_devices' = RegisteredDevices /\ UNCHANGED dm_error
       ELSE IF answer = "malformed"
         THEN dm_devices' = SampleDevices /\ UNCHANGED dm_error
       ELSE /\ dm_devices' = SampleDevices
            /\ dm_error' = (IF answer = "status"
                              THEN "Failed to load devices. Failed to fetch devices: 500"
                              ELSE "Failed to load devices. Failed to fetch")
  /\ UNCHANGED <<dm_mounted, dm_newDeviceName, dm_newDeviceType, dm_adding,
                 dm_requests, dm_calls, dm_last, notDeviceManager>>

\* onChange of the name input and of the type select; the form is rendered
\* when the view is not loading
DM_ChangeForm ==
  /\ dm_mounted
  /\ ~dm_loading
  /\ \E name \in DeviceNames, type \in DeviceTypes :
       /\ <<name, type>> # <<dm_newDeviceName, dm_newDeviceType>>
       /\ dm_newDeviceName' = name
       /\ dm_newDeviceType' = type
  /\ UNCHANGED <<dm_mounted, dm_devices, dm_loading, dm_error, dm_fetching,
                 dm_adding, dm_requests, dm_calls, dm_last, notDeviceManager>>

\* handleAddDevice up to its await of fetch
DM_handleAddDevice ==
  /\ dm_mounted
  /\ ~dm_loading
  /\ dm_calls < MaxDmCalls
  /\ dm_calls' = dm_calls + 1
  /\ dm_last' = [NoCall EXCEPT !.op = "add", !.name = dm_newDeviceName]
  /\ IF dm_newDeviceName = ""
       THEN UNCHANGED <<dm_adding, dm_requests>>
       ELSE /\ dm_adding' = Sent(dm_adding, [devices |-> dm_devices,
                                             name |-> dm_newDeviceName,
                                             type |-> dm_newDeviceType])
            /\ dm_requests' = dm_requests + 1
  /\ UNCHANGED <<dm_mounted, dm_devices, dm_loading, dm_error, dm_newDeviceName,
                 dm_newDeviceType, dm_fetching, notDeviceManager>>

\* the answer to the register request arrives: the rest of handleAddDevice,
\* through the ok branch, the else branch or the catch block
DM_AddResponse ==
  /\ dm_mounted
  /\ \E call \in BagToSet(dm_adding), answer \in {"ok", "invalid", "status", "network"} :
       /\ dm_adding' = Received(dm_adding, call)
       /\ dm_devices' = Append(call.devices, NewDevice(answer, call.name, call.type))
  /\ dm_newDeviceName' = ""
  /\ dm_newDeviceType' = "keyboard"
  /\ UNCHANGED <<dm_mounted, dm_loading, dm_error, dm_fetching, dm_requests,
                 dm_calls, dm_last, notDeviceManager>>

\* handleStatusChange(device.client_id, ...) of the button of a listed
\* device: 'disabled' for an active device, 'active' otherwise.  The
\* request is not awaited and its answer updates nothing.
DM_handleStatusChange ==
  /\ dm_mounted
  /\ ~dm_loading
  /\ dm_calls < MaxDmCalls
  /\ dm_calls' = dm_calls + 1
  /\ dm_requests' = dm_requests + 1
  /\ \E i \in DOMAIN dm_devices :
       LET deviceId == dm_devices[i].client_id
           newStatus == IF dm_devices[i].status = "active" THEN "disabled" ELSE "active"
       IN /\ dm_last' = [NoCall EXCEPT !.op = "status", !.deviceId = deviceId,
                                       !.status = newStatus]
          /\ dm_devices' = WithStatus(dm_devices, deviceId, newStatus)
  /\ UNCHANGED <<dm_mounted, dm_loading, dm_error, dm_newDeviceName,
                 dm_newDeviceType, dm_fetching, dm_adding, notDeviceManager>>

\* the instance is discarded with its state; the answers to its requests
\* update nothing
DM_Unmount ==
  /\ dm_mounted
  /\ dm_mounted' = FALSE
  /\ dm_devices' = <<>>
  /\ dm_loading' = TRUE
  /\ dm_error' = NoError
  /\ dm_newDeviceName' = ""
  /\ dm_newDeviceType' = "keyboard"
  /\ dm_fetching' = FALSE
  /\ dm_adding' = EmptyBag
  /\ dm_requests' = 0
  /\ dm_calls' = 0
  /\ dm_last' = NoCall
  /\ UNCHANGED notDeviceManager

NextDeviceManager ==
  \/ DM_Mount
  \/ DM_DevicesResponse
  \/ DM_ChangeForm
  \/ DM_handleAddDevice
  \/ DM_AddResponse
  \/ DM_handleStatusChange
  \/ DM_Unmount

(***************************************************************************)
(* The session: one of api.js, App, SecurityLogs and DeviceManager in a    *)
(* browser that may hold a token.  Every fetch is answered or rejects in   *)
(* the end.                                                                *)
(***************************************************************************)
InitSession ==
  /\ view \in {"api", "App", "SecurityLogs", "DeviceManager"}
  /\ authToken \in {NoToken} \cup StoredTokens
  /\ location = HomeUrl
  /\ IdleApi
  /\ IdleApp
  /\ IdleSecurityLogs
  /\ IdleDeviceManager
  /\ IdleColor
  /\ IdleDeviceHeatmap
  /\ IdleTimers
  /\ IdleMouseButtonHeatmap
  /\ IdleIoTDevices
  /\ IdleIoTMonitor

NextSession ==
  \/ NextApi
  \/ NextApp
  \/ NextSecurityLogs
  \/ NextDeviceManager

SpecSession ==
  /\ InitSession
  /\ [][NextSession]_vars
  /\ WF_vars(API_Response)
  /\ WF_vars(API_RefreshResponse)
  /\ WF_vars(APP_VerifyResponse)

(***************************************************************************)
(* The page hosts one of the views, from before its first render.          *)
(***************************************************************************)
Views == {"DeviceHeatmap", "MouseButtonHeatmap", "IoTDevices", "IoTMonitor"}

Init ==
  /\ view \in Views
  /\ IdleColor
  /\ IdleDeviceHeatmap
  /\ IdleTimers
  /\ IdleOtherViews

Next ==
  \/ NextDeviceHeatmap
  \/ NextMouseButtonHeatmap
  \/ NextIoTDevices
  \/ NextIoTMonitor

Spec == Init /\ [][Next]_vars

(***************************************************************************)
(* Claims about the colour mappers (checked under SpecColor).              *)
(***************************************************************************)
IsMapper == cm_fn \in {"getColor", "getHeatColor"}

IsRed(c) == RatEq(c.r, Rat(255, 1)) /\ RatEq(c.g, Rat(0, 1)) /\ RatEq(c.b, Rat(0, 1))

\* C1: getColor(0) and getHeatColor(0) are fully transparent: the alpha
\* component of the colour either mapper returns for value 0 is 0.
C1_ZeroIsTransparent ==
  IsMapper =>
    /\ (cm_v1 = 0 => RatEq(cm_out1.a, Rat(0, 1)))
    /\ (cm_v2 = 0 => RatEq(cm_out2.a, Rat(0, 1)))

C1_Witness ==
  /\ cm_fn = "getColor"
  /\ cm_v1 = 0
  /\ cm_out1 = RGBA(Rat(0, 1), Rat(0, 1), Rat(0, 1), Rat(0, 1))
  /\ cm_v2 = ValueDen
  /\ RatLt(Rat(0, 1), cm_out2.a)

\* C2: for either mapper and two values v1 <= v2 of [0,100] in the same
\* band, the alpha for v1 is at most the alpha for v2.
C2_AlphaMonotoneInBand ==
  /\ (cm_fn = "getColor" /\ cm_v1 <= cm_v2 /\ getColorBand(cm_v1) = getColorBand(cm_v2))
        => RatLeq(cm_out1.a, cm_out2.a)
  /\ (cm_fn = "getHeatColor" /\ cm_v1 <= cm_v2
        /\ getHeatColorBand(cm_v1) = getHeatColorBand(cm_v2))
        => RatLeq(cm_out1.a, cm_out2.a)

C2_Witness ==
  /\ cm_fn = "getColor"
  /\ cm_v1 = 2 * ValueDen
  /\ cm_v2 = 9 * ValueDen
  /\ getColorBand(cm_v1) = getColorBand(cm_v2)
  /\ RatLt(cm_out1.a, cm_out2.a)

\* C3: getTextColor(v) is 'black' for v <= 50 and 'white' for v > 50, so
\* it switches once as v grows: no value above a 'white' one is 'black'.
C3_TextColorThreshold ==
  cm_fn = "getTextColor" =>
    /\ cm_out1 = (IF cm_v1 <= 50 * ValueDen THEN "black" ELSE "white")
    /\ cm_out2 = (IF cm_v2 <= 50 * ValueDen THEN "black" ELSE "white")
    /\ (cm_v1 <= cm_v2 /\ cm_out1 = "white" => cm_out2 = "white")

C3_Witness ==
  /\ cm_fn = "getTextColor"
  /\ cm_v1 = 50 * ValueDen
  /\ cm_out1 = "black"
  /\ cm_v2 = 50 * ValueDen + 1
  /\ cm_out2 = "white"

\* C4 as stated: for every value >= 80 both mappers return (255, 0, 0)
\* with one fixed alpha, the same whatever the value.
C4_Original ==
  (IsMapper /\ cm_v1 >= 80 * ValueDen /\ cm_v2 >= 80 * ValueDen) =>
    /\ IsRed(cm_out1)
    /\ IsRed(cm_out2)
    /\ RatEq(cm_out1.a, cm_out2.a)

\* C4 as amended: for every value >= 80 both mappers return (255, 0, 0);
\* getColor's alpha is the fixed 0.8, getHeatColor's alpha is value / 100
\* (so it grows with the value and is at least 0.8).
C4_RedBand ==
  /\ (IsMapper /\ cm_v1 >= 80 * ValueDen) => IsRed(cm_out1)
  /\ (IsMapper /\ cm_v2 >= 80 * ValueDen) => IsRed(cm_out2)
  /\ (cm_fn = "getColor" /\ cm_v1 >= 80 * ValueDen) => RatEq(cm_out1.a, Rat(8, 10))
  /\ (cm_fn = "getColor" /\ cm_v2 >= 80 * ValueDen) => RatEq(cm_out2.a, Rat(8, 10))
  /\ (cm_fn = "getHeatColor" /\ cm_v1 >= 80 * ValueDen)
        => RatEq(cm_out1.a, Rat(cm_v1, 100 * ValueDen)) /\ RatLeq(Rat(8, 10), cm_out1.a)
  /\ (cm_fn = "getHeatColor" /\ cm_v2 >= 80 * ValueDen)
        => RatEq(cm_out2.a, Rat(cm_v2, 100 * ValueDen)) /\ RatLeq(Rat(8, 10), cm_out2.a)

C4_Witness ==
  /\ cm_fn = "getHeatColor"
  /\ cm_v1 = 80 * ValueDen
  /\ cm_v2 = 95 * ValueDen
  /\ IsRed(cm_out1) /\ IsRed(cm_out2)
  /\ RatLt(cm_out1.a, cm_out2.a)

(***************************************************************************)
(* Claims about one fetch of DeviceHeatmap and its synthetic generator     *)
(* (checked under SpecGen).                                                *)
(***************************************************************************)
\* the sum of the cells of a grid that were written (the others hold 0)
RECURSIVE SumCells(_, _)
SumCells(cells, todo) ==
  IF todo = {} THEN 0
  ELSE LET c == CHOOSE c \in todo : TRUE
       IN cells[c] + SumCells(cells, todo \ {c})

GridSum(g) == SumCells(g.cells, DOMAIN g.cells)

\* the grid has exactly `rows' rows of `cols' cells
HasShape(g, rows, cols) ==
  /\ g.rows = rows
  /\ g.cols = cols
  /\ \A c \in DOMAIN g.cells : c[1] \in 0..(rows - 1) /\ c[2] \in 0..(cols - 1)

NonNegative(g) == \A c \in DOMAIN g.cells : g.cells[c] >= 0

\* the cell (x, y) meets the region of its pass: cell x covers [x, x+1)
InRegion(pass, x, y) ==
  IF pass = 1
    THEN /\ 10 * (x + 1) > 2 * width /\ 10 * x < 8 * width
         /\ 10 * (y + 1) > 2 * height /\ 10 * y < 8 * height
  ELSE IF pass = 2
    THEN /\ x >= 0 /\ 10 * x < 2 * width
         /\ y >= 0 /\ 10 * y < 2 * height
  ELSE /\ 10 * (x + 1) > 2 * width /\ 10 * x < 8 * width
       /\ 10 * (y + 1) > 8 * height /\ y < height

InGrid(x, y) == x \in 0..(width - 1) /\ y \in 0..(height - 1)

Generating == dh_pc \in {"pass1", "pass2", "pass3", "publish"}

\* C5 as stated: a failed fetch of DeviceHeatmap never lets an error out
\* of fetchHeatmapData, and once its handler has run the view holds
\* heatmap data and is not loading.
C5_FailedFetchEndsWithData ==
  /\ dh_ended.outcome # "threw"
  /\ dh_ended.outcome = "fallback" => (dh_heatmapData # Null /\ dh_loading = FALSE)

\* C6 as stated: every sample of the generator lies in the region of its
\* pass (read by cells) and inside [0,width) x [0,height).
C6_SamplesInRegionAndGrid ==
  gen_sample.pass # 0 =>
    /\ InRegion(gen_sample.pass, gen_sample.x, gen_sample.y)
    /\ InGrid(gen_sample.x, gen_sample.y)

\* C7: while generateDummyHeatmap runs, both grids have exactly height
\* rows of width cells and no negative cell, they are all-zero when the
\* first pass starts, and the data it publishes carries these grids with
\* resolution (width, height).
C7_GridShape ==
  /\ Generating =>
       /\ HasShape(positionData, height, width)
       /\ HasShape(clickData, height, width)
       /\ NonNegative(positionData)
       /\ NonNegative(clickData)
  /\ (dh_pc = "pass1" /\ gen_i = 0) =>
       /\ DOMAIN positionData.cells = {}
       /\ DOMAIN clickData.cells = {}
  /\ dh_heatmapData.source = "synthetic" =>
       /\ dh_heatmapData.resolution = [width |-> width, height |-> height]
       /\ HasShape(dh_heatmapData.position_heatmap,
                   dh_heatmapData.resolution.height, dh_heatmapData.resolution.width)
       /\ HasShape(dh_heatmapData.click_heatmap,
                   dh_heatmapData.resolution.height, dh_heatmapData.resolution.width)
       /\ NonNegative(dh_heatmapData.position_heatmap)
       /\ NonNegative(dh_heatmapData.click_heatmap)

\* a generation that has written to both grids and has been published
C7_Witness ==
  /\ dh_ended.outcome = "fallback"
  /\ dh_heatmapData.source = "synthetic"
  /\ Cardinality(DOMAIN dh_heatmapData.position_heatmap.cells) = 3
  /\ Cardinality(DOMAIN dh_heatmapData.click_heatmap.cells) >= 1

\* C8: the cells of the position grid add up to the position weights
\* drawn so far and the cells of the click grid to the click weights
\* contributed so far, at every step of the generation and when the three
\* passes are over and the grids are about to be published.
C8_Conservation ==
  Generating =>
    /\ GridSum(positionData) = gen_posDrawn
    /\ GridSum(clickData) = gen_clickDrawn

\* the passes are over; two samples of different passes fell into the
\* same cell, which holds the sum of their weights
C8_Witness ==
  /\ dh_pc = "publish"
  /\ \E c \in DOMAIN positionData.cells :
       positionData.cells[c] = PositionWeight(1, 1) + PositionWeight(2, 1)
  /\ gen_clickDrawn > 0

\* C24: while generateDummyHeatmap runs, every cell of the click grid that
\* holds a positive value holds a positive value in the position grid too,
\* and a step that adds to a cell of the click grid adds to the same cell
\* of the position grid.
C24_ClickOnlyWherePosition ==
  [][Generating' =>
       \A c \in DOMAIN clickData'.cells :
         /\ clickData'.cells[c] > 0 => Cell(positionData', c[1], c[2]) > 0
         /\ clickData'.cells[c] # Cell(clickData, c[1], c[2])
              => Cell(positionData', c[1], c[2]) > Cell(positionData, c[1], c[2])]_vars

\* a sample whose position weight was drawn as low as it gets,
\* Math.random() = 0, has also passed its click test
C24_Witness ==
  /\ Generating
  /\ \E c \in DOMAIN clickData.cells :
       /\ clickData.cells[c] > 0
       /\ Cell(positionData, c[1], c[2]) = PositionWeight(1, 0)

(***************************************************************************)
(* Claims about the life cycle of the views (checked under Spec).          *)
(***************************************************************************)
\* the failure handler of a fetch for deviceId d ends in this step
DH_FailureEnds(d) ==
  /\ dh_pc # "idle"
  /\ dh_pc' = "idle"
  /\ dh_req.deviceId = d

MB_FailureEnds(d) ==
  /\ mb_pending = Sent(mb_pending', Request(d))
  /\ mb_ended'.outcome = "fallback"

\* C9 as stated: when a mounted heatmap view shows the data of a
\* successful fetch for its deviceId and a later fetch for that deviceId
\* fails, the failure handler leaves heatmapData as it is and the view is
\* not loading afterwards.
C9_FailedRefreshKeepsData ==
  [][/\ (/\ dh_mounted
         /\ dh_heatmapData = ApiData(dh_deviceId)
         /\ DH_FailureEnds(dh_deviceId))
        => (dh_heatmapData' = dh_heatmapData /\ dh_loading' = FALSE)
     /\ (/\ mb_mounted
         /\ mb_heatmapData.source = "api"
         /\ mb_heatmapData.deviceId = mb_deviceId
         /\ MB_FailureEnds(mb_deviceId))
        => (mb_heatmapData' = mb_heatmapData /\ mb_loading' = FALSE)]_vars

\* C10: once the cleanup of an effect has run (the view is torn down or
\* the effect is re-run), no timer that effect started is live and none
\* of them calls its fetch function again.
C10_ReleasedTimersAreSilent ==
  [][/\ \A t \in released' : ~timers'[t].live
     /\ \A t \in released : callsBy'[t] = callsBy[t]]_vars

\* an interval fetched before its effect was cleaned up, and the timer of
\* the effect that replaced it has fetched since
C10_Witness ==
  \E t \in released, u \in DOMAIN timers \ released :
    /\ timers[t].owner = timers[u].owner
    /\ callsBy[t] >= 1
    /\ ~timers[t].live
    /\ callsBy[u] >= 1

\* C11 as stated: the zone map MouseButtonHeatmap falls back to when its
\* fetch fails has intensity 0 in every zone and an empty posture-issue
\* list.
C11_FallbackIsAllZero ==
  mb_heatmapData.source = "fallback"
    => /\ \A z \in DOMAIN mb_heatmapData.contact_points :
            mb_heatmapData.contact_points[z] = 0
       /\ mb_heatmapData.posture_issues = <<>>

\* C12 as stated: a known zone that the fetched contact_points map lacks is
\* coloured exactly as a zone of intensity 0.
C12_MissingZoneIsZero ==
  (mb_mounted /\ mb_heatmapData.source = "api")
    => \A z \in KnownZones \ DOMAIN mb_heatmapData.contact_points :
         ZoneBackground(mb_heatmapData.contact_points, z) = getHeatColor(0)

\* C13 as stated: while MouseButtonHeatmap is mounted and its deviceId has
\* not changed since the mount (no effect of the view has been cleaned up),
\* no click count it shows is lower after a step than before it.
C13_ClickCountsNeverDecrease ==
  [][(/\ mb_mounted /\ mb_mounted'
      /\ mb_deviceId' = mb_deviceId
      /\ OwnedBy("MouseButtonHeatmap") \cap released' = {}
      /\ mb_heatmapData.source # "null"
      /\ mb_heatmapData'.source # "null")
     => \A b \in DOMAIN mb_heatmapData.click_data :
          mb_heatmapData'.click_data[b] >= mb_heatmapData.click_data[b]]_vars

\* the refresh timer of a view is armed in state (ts, mounted, d): a live
\* timer of the view holds the deviceId d
Armed(ts, owner, d) ==
  \E t \in DOMAIN ts :
    ts[t].owner = owner /\ ts[t].live /\ ts[t].deviceId = d

\* C14 as stated: a heatmap view that is mounted with a non-empty deviceId
\* always has an armed refresh timer for that deviceId, so that another
\* refresh fetch follows every refresh fetch.  (Fetches are started only
\* by the effect and by the timer callback, so a mounted view without an
\* armed timer never fetches again while its deviceId stays the same.)
C14_Original ==
  /\ (dh_mounted /\ dh_deviceId # NoDevice)
       => Armed(timers, "DeviceHeatmap", dh_deviceId)
  /\ (mb_mounted /\ mb_deviceId # NoDevice)
       => Armed(timers, "MouseButtonHeatmap", mb_deviceId)

\* C14, amended: DeviceHeatmap mounted with a non-empty deviceId always
\* has its interval armed for that deviceId, and every call of a
\* DeviceHeatmap timer that holds a non-empty deviceId starts a fetch for
\* it; a MouseButtonHeatmap timeout is called at most once and is not
\* armed after its call.
C14_IntervalKeepsRefreshing ==
  [][/\ (dh_mounted' /\ dh_deviceId' # NoDevice)
          => Armed(timers', "DeviceHeatmap", dh_deviceId')
     /\ \A t \in DOMAIN timers :
          (/\ timers[t].owner = "DeviceHeatmap"
           /\ timers[t].deviceId # NoDevice
           /\ callsBy'[t] > callsBy[t])
          => /\ dh_pending' = Sent(dh_pending, Request(timers[t].deviceId))
             /\ timers'[t].live
     /\ \A t \in DOMAIN timers' :
          timers'[t].owner = "MouseButtonHeatmap"
          => /\ callsBy'[t] <= 1
             /\ callsBy'[t] = 1 => ~timers'[t].live]_vars

\* a mounted DeviceHeatmap whose interval has refreshed twice and is still
\* armed
C14_Witness ==
  /\ dh_mounted /\ dh_deviceId # NoDevice
  /\ \E t \in LiveTimers("DeviceHeatmap") :
       timers[t].deviceId = dh_deviceId /\ callsBy[t] >= 2

\* the fetches of MouseButtonHeatmap started for the effect run that set
\* timer t: the one of the effect body, if it had a deviceId, and the calls
\* of its timeout
FetchesOfRun(t) ==
  IF timers[t].deviceId = NoDevice THEN 0 ELSE 1 + callsBy[t]

RECURSIVE FetchesOfRuns(_)
FetchesOfRuns(n) ==
  IF n = 0 THEN 0
  ELSE (IF timers[n].owner = "MouseButtonHeatmap" THEN FetchesOfRun(n) ELSE 0)
       + FetchesOfRuns(n - 1)

C15_BoundedAndTerminates ==
  /\ [](api_refreshes <= 1 /\ api_requests <= 2)
  /\ [](api_pc \in {"request", "refresh"} => <>(api_pc = "done"))

\* a call that refreshed the token and retried has ended
C15_Witness ==
  /\ api_pc = "done"
  /\ api_refreshes = 1
  /\ api_requests = 2

\* the step ends the call on a 401 that was not recovered: refreshToken
\* returned false, or the answer to the retried request is the 401
EndsUnrecovered ==
  /\ api_pc # "done"
  /\ api_pc' = "done"
  /\ api_status' = 401
  /\ \/ api_refreshed' = "false"
     \/ api_pc = "request" /\ api_retryCount = 1

\* C16: a call that ends on an unrecovered 401 has removed authToken from
\* localStorage, has set the location to /login?session=expired and has
\* thrown 'Authentication token expired'; it has not returned a response.
C16_UnrecoveredEndsSession ==
  [][EndsUnrecovered
       => /\ authToken' = NoToken
          /\ location' = LoginUrl
          /\ api_outcome' = Threw("Authentication token expired")]_vars

\* a call has ended on the 401 of its retried request
C16_Witness ==
  /\ api_pc = "done"
  /\ api_status = 401
  /\ api_retryCount = 1
  /\ api_refreshed = "true"
  /\ api_outcome.kind = "threw"

\* C17: getDevices returns and never throws: an empty array when its
\* fetchWithAuth call threw (no token, unrecovered 401, error status,
\* network error), the devices of the response when there are any, and an
\* empty array when the response has no devices field.
C17_GetDevicesNeverThrows ==
  (api_pc = "done" /\ api_caller = "getDevices")
    => /\ api_result.kind = "returned"
       /\ api_outcome.kind = "threw" => api_result.devices = <<>>
       /\ (api_outcome.kind = "returned" /\ api_outcome.body = "devices")
            => api_result.devices = ServerDevices
       /\ (api_outcome.kind = "returned" /\ api_outcome.body = "empty")
            => api_result.devices = <<>>

\* a getDevices call has ended after its fetchWithAuth call threw
C17_Witness ==
  /\ api_pc = "done"
  /\ api_caller = "getDevices"
  /\ api_outcome.kind = "threw"
  /\ api_requests >= 1

\* C18 as stated: the startup check leaves isAuthenticated true only when
\* a token is stored and the verify endpoint answered with a successful
\* response; after any other answer, or none, isAuthenticated is false;
\* and loading is false when the check has ended.
C18_AuthenticatedOnlyIfVerified ==
  [][(app_pc # "done" /\ app_pc' = "done")
       => /\ app_isAuthenticated' => (authToken # NoToken /\ IsOk(app_verify'))
          /\ ~app_loading']_vars

\* C19: a mounted SecurityLogs whose user is not an admin has issued no
\* request, holds no logs, shows the 'Access denied' error and is not
\* loading.
C19_AdminOnly ==
  (sl_mounted /\ sl_role # "admin")
    => /\ sl_requests = 0
       /\ sl_pending = 0
       /\ sl_logs = <<>>
       /\ sl_error = AccessDenied
       /\ ~sl_loading

\* SecurityLogs is mounted for a player
C19_Witness ==
  /\ sl_mounted
  /\ sl_role = "player"
  /\ sl_error = AccessDenied

(***************************************************************************)
(* Claims about IoTMonitor (checked under Spec) and about DeviceManager     *)
(* (checked under SpecSession).                                            *)
(***************************************************************************)
\* C23 as stated: when a fetchData call of the mounted IoTMonitor
\* completes, the devices state is the list getDevices returned.
C23_DevicesAreTheReturnedList ==
  [][(im_mounted /\ \E req \in BagToSet(im_pending) :
                      im_pending' = Received(im_pending, req))
       => im_devices' = im_returned']_vars

\* a handleAddDevice call with a non-empty name ends in this step
AddEnds ==
  /\ dm_mounted
  /\ dm_mounted'
  /\ \E call \in BagToSet(dm_adding) : dm_adding' = Received(dm_adding, call)

\* C21 as stated: when a handleAddDevice call with a non-empty name ends,
\* the list is the list as it was plus exactly one device at its end, and
\* the form fields are reset; a call with an empty name changes nothing and
\* sends no request.
C21_AddAppendsOne ==
  [][/\ AddEnds
          => /\ Len(dm_devices') = Len(dm_devices) + 1
             /\ SubSeq(dm_devices', 1, Len(dm_devices)) = dm_devices
             /\ dm_newDeviceName' = ""
             /\ dm_newDeviceType' = "keyboard"
     /\ (dm_calls' = dm_calls + 1 /\ dm_last'.op = "add" /\ dm_last'.name = "")
          => UNCHANGED <<dm_devices, dm_newDeviceName, dm_newDeviceType,
                         dm_adding, dm_requests, dm_loading, dm_error>>]_vars

\* C22: a call handleStatusChange(deviceId, newStatus) keeps the length and
\* the order of the list and every field but status of every device, gives
\* the devices whose client_id is deviceId the status newStatus and leaves
\* the status of every other device as it was.
C22_StatusChangeFrame ==
  [][(dm_calls' = dm_calls + 1 /\ dm_last'.op = "status")
       => /\ Len(dm_devices') = Len(dm_devices)
          /\ \A i \in DOMAIN dm_devices :
               /\ dm_devices'[i].client_id = dm_devices[i].client_id
               /\ dm_devices'[i].name = dm_devices[i].name
               /\ dm_devices'[i].device_type = dm_devices[i].device_type
               /\ dm_devices'[i].status =
                    (IF dm_devices[i].client_id = dm_last'.deviceId
                       THEN dm_last'.status
                       ELSE dm_devices[i].status)]_vars

\* the status of one of several listed devices has been changed
C22_Witness ==
  /\ dm_mounted
  /\ dm_last.op = "status"
  /\ dm_last.status = "disabled"
  /\ \E i, j \in DOMAIN dm_devices :
       /\ dm_devices[i].client_id = dm_last.deviceId
       /\ dm_devices[i].status = "disabled"
       /\ dm_devices[j].client_id # dm_last.deviceId
       /\ dm_devices[j].status = "active"

====
